---- MODULE Spec2Model ----
(***************************************************************************)
(* A model of the hookshot relay server (lance0/hookshot):                 *)
(*   - internal/server  RequestStore   (per-tunnel bounded request history)*)
(*   - internal/server  TunnelRegistry / Tunnel (ForwardRequest,           *)
(*                      HandleResponse, ReadPump, WritePump)               *)
(*   - internal/server  Server (handleWebSocket, handleWebhook,            *)
(*                      handleListRequests, handleReplay, checkAuth)       *)
(*                                                                         *)
(* Identifiers.  uuid.New() is modelled as "the next identifier never      *)
(* handed out before": tunnel ids are 1, 2, ... in the order Register      *)
(* generates them and request ids are 1, 2, ... in the order the handlers  *)
(* generate them.  0 stands for the empty string / no identifier.          *)
(* Strings the code inspects character by character (the Authorization     *)
(* header, the token) are sequences of one-character strings.              *)
(***************************************************************************)
EXTENDS Integers, Sequences, FiniteSets, TLC

\* ------------------------------------------------------------------ bounds
\* tunnel identifiers uuid.New() hands out to Register
MaxTunnels == 2
\* request identifiers the store-level specification hands out
MaxStored == 4
\* the configured Config.MaxRequests (NewRequestStore's maxRequests)
MaxRequests == 2
\* Config.MaxRequests of a server whose history is shorter than its traffic
SmallStore == 1
\* RequestStore's capacity when none is configured
defaultMaxRequests == 100

\* concurrent HTTP handler goroutines (webhook, list, replay)
MaxHandlers == 2
\* request identifiers the handlers hand out
MaxReqIds == 2
\* webhooks sent while the peer's duplicate responses are told apart
MaxDupRequests == 1
\* capacity of Tunnel.send as modelled (make(chan []byte, 256) in the code)
SendCap == 1
\* consecutive failed connects Client.Run is followed through
MaxAttempts == 6
\* connections the client dials in one run
MaxSessions == 2
\* ping envelopes the client is sent in one run
MaxPings == 1
\* header fields of one message
MaxFields == 2
\* routes of one client configuration
MaxRoutes == 2
\* the seconds a timed specification lets pass
MaxTime == 61

TunnelIds == 1..MaxTunnels
Conns == 1..MaxTunnels
Handlers == 1..MaxHandlers
NoId == 0

\* HTTP status codes a client may put in a response envelope
Statuses == {200, 502}

\* the (method, path, headers, body) of the webhooks the environment sends
PostShape ==
    [method |-> "POST", path |-> "/hello?x=1",
     headers |-> {<<"Content-Type", "application/json">>}, body |-> "ping"]

VARIABLES
    store,      \* RequestStore: [requests, byTunnel, responses]
    nextReq,    \* the next request id uuid.New().String()[:8] yields
    storedLog,  \* history: per tunnel, the ids passed to Store since the
                \* store was created or the tunnel was last Cleared
    token,      \* Config.Token (<<>> when no token is configured)
    srv,        \* where Server.Run stands: "serving", "swept" (CloseAll
                \* has returned), "stopped" (srv.Shutdown closed the listener)
    registry,   \* TunnelRegistry.tunnels: the ids that have an entry
    nextTunnel, \* the next tunnel id uuid.New() yields
    tconn,      \* Tunnel.conn: the connection a tunnel was created on
    done,       \* Tunnel.done is closed
    sendq,      \* Tunnel.send: the buffered outbound queue
    pending,    \* Tunnel.pending: request id -> buffer of its respChan
    chans,      \* per tunnel: Tunnel.closeOnce has run (once), how often
                \* close(t.done) was executed (closes), t.send is closed
                \* (sendClosed), the capacity of t.send (cap)
    reader,     \* the ReadPump goroutine of each tunnel
    writer,     \* the WritePump goroutine of each tunnel
    conn,       \* the WebSocket connections handleWebSocket serves
    http,       \* the HTTP handler goroutines
    arrivals,   \* history: per tunnel and request id, the first response
                \* envelope ReadPump decoded (any) and the first it decoded
                \* while the id was in the pending table (pend)
    last,       \* history: the reply the handlers wrote most recently
    hs,         \* history: the connection and first envelope of the
                \* handshake handleWebSocket decided most recently
    client,     \* Client: the position of Run, its context, its backoff
                \* state and the connection c.conn names
    tasks,      \* the handleRequest goroutines runLoop started
    sent,       \* history: the envelopes the client handed to
                \* c.conn.WriteMessage, in order
    probe,      \* the input and the result of the pure function a
                \* specification applies
    clock       \* time in seconds: now, and per tunnel the read deadline
                \* of its connection (0: none set)

storeVars == <<store, nextReq, storedLog>>
tunnelVars == <<registry, nextTunnel, tconn, done, chans, sendq, pending>>
pumpVars == <<reader, writer>>
clientVars == <<client, tasks, sent>>
cfgVars == <<token, srv>>
envVars == <<cfgVars, clientVars, probe, clock>>
serverVars == <<storeVars, cfgVars, tunnelVars, pumpVars, conn, http, arrivals,
                last, hs, clock>>
vars == <<store, nextReq, storedLog, token, srv, registry, nextTunnel, tconn, done,
          sendq, pending, reader, writer, conn, http, arrivals, last, hs,
          client, tasks, sent, probe, chans, clock>>

\* ------------------------------------------------------------------ strings
BearerPrefix == <<"B", "e", "a", "r", "e", "r", " ">>
NoToken == <<>>
Secret == <<"s", "3">>
Wrong == <<"s", "4">>
Bearer(tok) == BearerPrefix \o tok

\* ------------------------------------------------------------ Go map helpers
MapPut(f, k, v) == [x \in (DOMAIN f) \cup {k} |-> IF x = k THEN v ELSE f[x]]
MapDel(f, k) == [x \in (DOMAIN f) \ {k} |-> f[x]]
EmptyMap == [x \in {} |-> 0]

RECURSIVE MapDelAll(_, _)
MapDelAll(f, ids) ==
    IF ids = <<>> THEN f ELSE MapDelAll(MapDel(f, Head(ids)), Tail(ids))

\* ------------------------------------------------------------- RequestStore
\* NewRequestStore(maxRequests): three empty maps.  byTunnel is kept total:
\* a missing key reads as the nil slice in Go, modelled as <<>>.
NewRequestStore(maxRequests) ==
    [requests    |-> EmptyMap,
     byTunnel    |-> [t \in TunnelIds |-> <<>>],
     responses   |-> EmptyMap,
     maxRequests |-> IF maxRequests <= 0 THEN defaultMaxRequests
                     ELSE maxRequests]

\* protocol.HTTPRequest as handleWebhook builds it
NewRequest(id, tunnelID, w) ==
    [id |-> id, tunnel_id |-> tunnelID,
     method |-> w.method, path |-> w.path, headers |-> w.headers,
     body |-> w.body]

\* protocol.HTTPResponse
NewResponse(requestID, status) ==
    [request_id |-> requestID, status_code |-> status]

\* A plausible slip: the evicted request's response is left behind.
StoreKeepsResponse(s, tunnelID, req) ==
    LET reqs  == MapPut(s.requests, req.id, req)
        order == Append(s.byTunnel[tunnelID], req.id)
    IN  IF Len(order) > s.maxRequests
        THEN [s EXCEPT !.requests = MapDel(reqs, Head(order)),
                       !.byTunnel[tunnelID] = Tail(order)]
        ELSE [s EXCEPT !.requests = reqs, !.byTunnel[tunnelID] = order]

\* A plausible slip: the newest entry is evicted instead of the oldest.
StoreEvictsNewest(s, tunnelID, req) ==
    LET reqs  == MapPut(s.requests, req.id, req)
        order == Append(s.byTunnel[tunnelID], req.id)
    IN  IF Len(order) > s.maxRequests
        THEN [s EXCEPT !.requests = MapDel(reqs, order[Len(order)]),
                       !.byTunnel[tunnelID] = SubSeq(order, 1, Len(order) - 1),
                       !.responses = MapDel(s.responses, order[Len(order)])]
        ELSE [s EXCEPT !.requests = reqs, !.byTunnel[tunnelID] = order]

\* RequestStore.Store
Store(s, tunnelID, req) ==
    LET reqs  == MapPut(s.requests, req.id, req)
        order == Append(s.byTunnel[tunnelID], req.id)
    IN  IF Len(order) > s.maxRequests
        THEN [s EXCEPT !.requests = MapDel(reqs, Head(order)),
                       !.byTunnel[tunnelID] = Tail(order),
                       !.responses = MapDel(s.responses, Head(order))]
        ELSE [s EXCEPT !.requests = reqs, !.byTunnel[tunnelID] = order]

\* RequestStore.StoreResponse
StoreResponse(s, resp) ==
    [s EXCEPT !.responses = MapPut(s.responses, resp.request_id, resp)]

\* RequestStore.Get: <<request, ok>>
StoreGet(s, requestID) ==
    IF requestID \in DOMAIN s.requests
    THEN <<s.requests[requestID], TRUE>>
    ELSE <<NoId, FALSE>>

\* RequestStore.Clear
Clear(s, tunnelID) ==
    [s EXCEPT !.requests = MapDelAll(s.requests, s.byTunnel[tunnelID]),
              !.byTunnel[tunnelID] = <<>>,
              !.responses = MapDelAll(s.responses, s.byTunnel[tunnelID])]

\* RequestSummary as List fills it: StatusCode keeps Go's zero value when
\* the request has no stored response (the timestamp is not modelled)
Summary(s, req) ==
    [id |-> req.id, method |-> req.method, path |-> req.path,
     status_code |-> IF req.id \in DOMAIN s.responses
                     THEN s.responses[req.id].status_code ELSE 0]

\* the loop of List from index i down to 1; an id without a request is
\* skipped
RECURSIVE ListFrom(_, _, _)
ListFrom(s, ids, i) ==
    IF i = 0 THEN <<>>
    ELSE IF ids[i] \in DOMAIN s.requests
         THEN <<Summary(s, s.requests[ids[i]])>> \o ListFrom(s, ids, i - 1)
         ELSE ListFrom(s, ids, i - 1)

\* A plausible slip: the summaries are returned oldest first.
ListOldestFirst(s, tunnelID) ==
    LET ids == s.byTunnel[tunnelID]
        RECURSIVE Up(_)
        Up(i) == IF i > Len(ids) THEN <<>>
                 ELSE IF ids[i] \in DOMAIN s.requests
                      THEN <<Summary(s, s.requests[ids[i]])>> \o Up(i + 1)
                      ELSE Up(i + 1)
    IN  Up(1)

\* RequestStore.List
List(s, tunnelID) == ListFrom(s, s.byTunnel[tunnelID], Len(s.byTunnel[tunnelID]))

\* ------------------------------------------------------- protocol values
NoResp == [request_id |-> NoId, status_code |-> 0]

\* the envelopes the server writes on a tunnel socket
ErrorEnvelope(code) == [type |-> "error", code |-> code]
RegisteredEnvelope(tunnelID) == [type |-> "registered", tunnel_id |-> tunnelID]
RequestEnvelope(req) == [type |-> "request", id |-> req]

\* the first envelope a client may send after the upgrade:
\*   register    a well-formed register envelope {tunnel_id, token}
\*   malformed   bytes json.Unmarshal rejects
\*   other       a well-formed envelope whose type is not "register"
\*   badpayload  type "register" with a payload ParsePayload rejects
FirstEnvelopes ==
    { [kind |-> "register", tunnel_id |-> r, token |-> k] :
          r \in {NoId} \cup TunnelIds, k \in {NoToken, Secret, Wrong} }
    \cup { [kind |-> k, tunnel_id |-> NoId, token |-> NoToken] :
          k \in {"malformed", "other", "badpayload"} }

\* the credentials an HTTP request may carry: the Authorization header and a
\* ?token= query parameter
NoCred == [auth |-> <<>>, query |-> <<>>]
Creds ==
    { [auth |-> a, query |-> <<>>] :
          a \in { <<>>, Bearer(Secret), Bearer(Wrong), Secret, BearerPrefix,
                  <<"b", "e", "a", "r", "e", "r", " ">> \o Secret,
                  Bearer(Secret) \o <<"x">> } }
    \cup { [auth |-> <<>>, query |-> q] : q \in {Secret, Wrong} }

\* --------------------------------------------------------- TunnelRegistry
\* A plausible slip (the behaviour before the change log's "server always
\* generates tunnel IDs"): a requested id is honoured.
RegisterHonoursRequested(generated, requestedID) ==
    IF requestedID # NoId THEN requestedID ELSE generated

\* TunnelRegistry.Register: the id of the tunnel it creates, given the value
\* uuid.New() generated and the client-requested id
RegisterId(generated, requestedID) == generated

\* A plausible slip: a missing entry is not reported.
RegistryGetAlways(reg, tunnelID) == TRUE

\* TunnelRegistry.Get: the ok result
RegistryGet(reg, tunnelID) == tunnelID \in reg

\* ------------------------------------------------------------------ Tunnel
\* seconds
pongWait == 60

\* the channels of the tunnel Register builds: closeOnce unused, done and
\* send open, send with its capacity
NewChans == [once |-> FALSE, closes |-> 0, sendClosed |-> FALSE, cap |-> SendCap]

\* Close without the sync.Once: close(t.done) on every call
CloseEveryCall(ch) == [ch EXCEPT !.once = TRUE, !.closes = @ + 1]

\* Tunnel.Close: t.closeOnce.Do(func() { close(t.done) })
Close(ch) ==
    IF ch.once THEN ch ELSE [ch EXCEPT !.once = TRUE, !.closes = @ + 1]

\* no deadline set on any connection, time 0
ZeroClock == [now |-> 0, readDeadline |-> [t \in TunnelIds |-> 0]]

\* A plausible slip: the response is handed to some waiting call without
\* comparing request ids.
HandleResponseAnySlot(p, resp) ==
    IF \E id \in DOMAIN p : p[id] = <<>>
    THEN LET id == CHOOSE i \in DOMAIN p : p[i] = <<>>
         IN  [p EXCEPT ![id] = <<resp>>]
    ELSE p

\* HandleResponse that finds no slot: the response is lost
HandleResponseLoses(p, resp) == p

\* A plausible slip: a later response replaces the one already buffered.
HandleResponseOverwrites(p, resp) ==
    IF resp.request_id \in DOMAIN p
    THEN [p EXCEPT ![resp.request_id] = <<resp>>]
    ELSE p

\* Tunnel.HandleResponse on the pending table p: a non-blocking send on the
\* one-slot channel registered under resp.RequestID.  Lookup and send are
\* one step: the reader is the only sender, and a send that follows the
\* caller's return lands in a channel nobody reads, which is the outcome of
\* the caller picking another ready select case.
HandleResponse(p, resp) ==
    IF resp.request_id \in DOMAIN p /\ p[resp.request_id] = <<>>
    THEN [p EXCEPT ![resp.request_id] = <<resp>>]
    ELSE p

\* A plausible slip: the deferred delete is missing.
ForwardCleanupLeaks(p, requestID) == p

\* the deferred function of Tunnel.ForwardRequest
ForwardCleanup(p, requestID) == MapDel(p, requestID)

\* ------------------------------------------------------------------ Server
\* A plausible slip: a token passed in the query string is accepted too.
checkAuthQuery(tok, cred) ==
    \/ tok = <<>>
    \/ /\ cred.auth # <<>>
       /\ Len(cred.auth) > 7
       /\ SubSeq(cred.auth, 1, 7) = BearerPrefix
       /\ SubSeq(cred.auth, 8, Len(cred.auth)) = tok
    \/ cred.query = tok

\* Server.checkAuth
checkAuth(tok, cred) ==
    \/ tok = <<>>
    \/ /\ cred.auth # <<>>
       /\ Len(cred.auth) > 7
       /\ SubSeq(cred.auth, 1, 7) = BearerPrefix
       /\ SubSeq(cred.auth, 8, Len(cred.auth)) = tok

\* A plausible slip: the token comparison is left out.
HandshakeNoTokenCheck(tok, env) ==
    IF env.kind # "register" THEN "close" ELSE "register"

\* Server.handleWebSocket from the first ReadMessage to the token check:
\* what the server does with the first envelope
HandshakeOutcome(tok, env) ==
    IF env.kind # "register" THEN "close"
    ELSE IF tok # <<>> /\ env.token # tok THEN "unauthorized"
    ELSE "register"

\* A plausible slip: the ownership check of the replay endpoint is missing.
ReplayOwnedAlways(req, tunnelID) == TRUE

\* Server.handleReplay: "Verify the request belongs to this tunnel"
ReplayOwned(req, tunnelID) == req.tunnel_id = tunnelID

\* A plausible slip: the 502 body does not name the request.
ErrorBodyAnonymous(kind, requestID) ==
    IF kind = "webhook" THEN <<"failed to forward request">>
    ELSE <<"failed to replay request">>

\* the body http.Error writes when ForwardRequest fails
ErrorBody(kind, requestID) ==
    IF kind = "webhook" THEN <<"failed to forward request (id=", requestID, ")">>
    ELSE <<"failed to replay request (id=", requestID, ")">>

\* A plausible slip: the replay is sent without the original's headers and
\* body.
ShapeOfBare(req) ==
    [method |-> req.method, path |-> req.path, headers |-> {}, body |-> ""]

\* the (method, path, headers, body) a replay copies from the stored request
ShapeOf(req) ==
    [method |-> req.method, path |-> req.path, headers |-> req.headers,
     body |-> req.body]

\* ------------------------------------------------------------------ Client
\* client.go const block, in seconds
reconnectDelay == 2
maxReconnectDelay == 30

Min(a, b) == IF a <= b THEN a ELSE b

NoConn == 0

\* New(cfg) before Run is called: no connection, nothing forwarded
\*   pc       where Run stands
\*   ctx      ctx.Done() is closed
\*   attempt  Run's local attempt
\*   delay    Run's local delay
\*   conn     c.conn: the connection dialled last (NoConn: nil)
\*   open     the connections that are not closed
\*   fails    history: the failed connects since the last successful one
IdleClient ==
    [pc |-> "new", ctx |-> FALSE, attempt |-> 0, delay |-> 0,
     conn |-> NoConn, dialed |-> FALSE, open |-> {}, fails |-> 0]

Unreachable == [ok |-> FALSE]

\* no handleRequest goroutine has been started for a request id
NoTask ==
    [pc |-> "none", req |-> NoId, err |-> FALSE, answer |-> Unreachable,
     resp |-> NoResp, on |-> NoId, wr |-> NoConn]

NoProbe == [fn |-> "none"]

ClientIdle ==
    /\ client = IdleClient
    /\ tasks = [id \in 1..MaxReqIds |-> NoTask]
    /\ sent = <<>>

\* --------------------------------------------------------------- Forwarder
\* header names and paths are sequences of one-character strings
\* the key http.Header.Set, Add and the HTTP parsers store a name under
\* (textproto.CanonicalMIMEHeaderKey): the first letter and every letter
\* after a hyphen in upper case, every other letter in lower case
CanonicalMIMEHeaderKey(name) ==
    LET lowers ==
            <<"a", "b", "c", "d", "e", "f", "g", "h", "i", "j", "k", "l",
              "m", "n", "o", "p", "q", "r", "s", "t", "u", "v", "w", "x",
              "y", "z">>
        uppers ==
            <<"A", "B", "C", "D", "E", "F", "G", "H", "I", "J", "K", "L",
              "M", "N", "O", "P", "Q", "R", "S", "T", "U", "V", "W", "X",
              "Y", "Z">>
        At(letters, ch) == CHOOSE i \in 1..26 : letters[i] = ch
        In(letters, ch) == \E i \in 1..26 : letters[i] = ch
        ToUpper(ch) == IF In(lowers, ch) THEN uppers[At(lowers, ch)] ELSE ch
        ToLower(ch) == IF In(uppers, ch) THEN lowers[At(uppers, ch)] ELSE ch
    IN  [i \in 1..Len(name) |->
            IF i = 1 \/ name[i - 1] = "-" THEN ToUpper(name[i])
            ELSE ToLower(name[i])]

\* header names in their canonical spelling
Hdr ==
    [Connection |-> <<"C", "o", "n", "n", "e", "c", "t", "i", "o", "n">>,
     KeepAlive |-> <<"K", "e", "e", "p", "-", "A", "l", "i", "v", "e">>,
     ProxyAuthenticate |-> <<"P", "r", "o", "x", "y", "-", "A", "u", "t", "h",
         "e", "n", "t", "i", "c", "a", "t", "e">>,
     ProxyAuthorization |-> <<"P", "r", "o", "x", "y", "-", "A", "u", "t",
         "h", "o", "r", "i", "z", "a", "t", "i", "o", "n">>,
     Te |-> <<"T", "e">>,
     Trailers |-> <<"T", "r", "a", "i", "l", "e", "r", "s">>,
     TransferEncoding |-> <<"T", "r", "a", "n", "s", "f", "e", "r", "-", "E",
         "n", "c", "o", "d", "i", "n", "g">>,
     Upgrade |-> <<"U", "p", "g", "r", "a", "d", "e">>,
     ContentType |-> <<"C", "o", "n", "t", "e", "n", "t", "-", "T", "y", "p",
         "e">>,
     Trailer |-> <<"T", "r", "a", "i", "l", "e", "r">>,
     XHook |-> <<"X", "-", "H", "o", "o", "k">>]

\* A plausible slip: Te is missing from the list.
isHopByHopNoTe(header) ==
    header \in {Hdr.Connection, Hdr.KeepAlive, Hdr.ProxyAuthenticate,
                Hdr.ProxyAuthorization, Hdr.Trailers, Hdr.TransferEncoding, Hdr.Upgrade}

\* isHopByHop(header): the switch compares the name as it was given
isHopByHop(header) ==
    header \in {Hdr.Connection, Hdr.KeepAlive, Hdr.ProxyAuthenticate,
                Hdr.ProxyAuthorization, Hdr.Te, Hdr.Trailers, Hdr.TransferEncoding,
                Hdr.Upgrade}

\* http.Header as the HTTP parsers of net/http build it from the header
\* fields of a message, in the order they were sent: canonical keys, the
\* values of a repeated name in order
RECURSIVE ReadHeader(_)
ReadHeader(fields) ==
    IF fields = <<>> THEN EmptyMap
    ELSE LET n == Len(fields)
             h == ReadHeader(SubSeq(fields, 1, n - 1))
             k == CanonicalMIMEHeaderKey(fields[n][1])
         IN  MapPut(h, k, IF k \in DOMAIN h THEN Append(h[k], fields[n][2])
                          ELSE <<fields[n][2]>>)

\* protocol.HeadersFromHTTP: the first value of every name
HeadersFromHTTP(h) ==
    [k \in {x \in DOMAIN h : Len(h[x]) > 0} |-> h[k][1]]

\* Forward, "Copy headers": what httpReq.Header can be after the loop.
\* Header.Set stores under the canonical key and replaces what is there;
\* when several names of the map share a canonical key, the name `range`
\* visits last leaves its value, and the order of `range` over a map is
\* not fixed: every choice of one name per canonical key is an outcome.
CopyHeaders(headers) ==
    LET kept  == {k \in DOMAIN headers : ~isHopByHop(k)}
        canon == {CanonicalMIMEHeaderKey(k) : k \in kept}
        lasts == {f \in [canon -> kept] :
                     \A c \in canon : CanonicalMIMEHeaderKey(f[c]) = c}
    IN  {[c \in canon |-> <<headers[f[c]]>>] : f \in lasts}

\* Forward, "Build response headers": the headers of the response envelope
ResponseHeaders(h) ==
    [k \in {x \in DOMAIN h : ~isHopByHop(x) /\ Len(h[x]) > 0} |-> h[k][1]]

\* strings.HasPrefix
HasPrefix(str, prefix) ==
    /\ Len(prefix) <= Len(str)
    /\ SubSeq(str, 1, Len(prefix)) = prefix

\* the loop of matchRoute from route i on: <<bestMatch.Target, bestLen>>
RECURSIVE matchFrom(_, _, _, _, _)
matchFrom(routes, i, path, bestMatch, bestLen) ==
    IF i > Len(routes) THEN <<bestMatch, bestLen>>
    ELSE IF HasPrefix(path, routes[i].Path) /\ Len(routes[i].Path) > bestLen
         THEN matchFrom(routes, i + 1, path, routes[i].Target,
                        Len(routes[i].Path))
         ELSE matchFrom(routes, i + 1, path, bestMatch, bestLen)

\* A plausible slip: >= lets a later route of the same length win.
matchRouteLastWins(routes, defaultTarget, path) ==
    LET RECURSIVE From(_, _, _)
        From(i, bestMatch, bestLen) ==
            IF i > Len(routes) THEN <<bestMatch, bestLen>>
            ELSE IF /\ HasPrefix(path, routes[i].Path)
                    /\ Len(routes[i].Path) >= bestLen
                 THEN From(i + 1, routes[i].Target, Len(routes[i].Path))
                 ELSE From(i + 1, bestMatch, bestLen)
        best == From(1, "", -1)
    IN  IF best[2] >= 0 THEN best[1] ELSE defaultTarget

\* matchRoute(routes, defaultTarget, path)
matchRoute(routes, defaultTarget, path) ==
    LET best == matchFrom(routes, 1, path, "", -1)
    IN  IF best[2] >= 0 THEN best[1] ELSE defaultTarget

\* the header fields of the webhook every relayed request of the client
\* specifications stems from, and the request envelope the server makes of it
HookFields == <<<<Hdr.ContentType, "json">>, <<Hdr.Connection, "close">>>>
HookPath == <<"/", "a">>
HookRequest(id) ==
    [id |-> id, method |-> "POST", path |-> HookPath,
     headers |-> HeadersFromHTTP(ReadHeader(HookFields)), body |-> "ping"]

\* what the local target does with a request: no usable answer (the URL
\* does not parse, the call fails, the body cannot be read) or a response
Answer(status, fields) ==
    [ok |-> TRUE, status |-> status, header |-> ReadHeader(fields),
     body |-> "pong"]

\* Forwarder.resolveTarget: the resolver exists when routes were configured
resolveTarget(f, path) ==
    IF f.routes # <<>> THEN matchRoute(f.routes, f.defaultTarget, path)
    ELSE f.defaultTarget

\* Forwarder.Forward(ctx, req) when the target does `answer`: the outcomes,
\* one for each header the copy loop can leave
\*   err     an error is returned
\*   target  the target the URL was built from
\*   header  httpReq.Header
\*   resp    the response returned
ForwarderForward(f, req, answer) ==
    {[err    |-> ~answer.ok,
      target |-> resolveTarget(f, req.path),
      header |-> hd,
      resp   |-> IF answer.ok
                 THEN [request_id |-> req.id, status_code |-> answer.status,
                       headers |-> ResponseHeaders(answer.header),
                       body |-> answer.body]
                 ELSE NoResp] : hd \in CopyHeaders(req.headers)}

TextPlain == [k \in {Hdr.ContentType} |-> "text/plain"]

\* A plausible slip: the synthesized response does not carry the request id.
ErrorResponseNoId(req) ==
    [request_id |-> NoId, status_code |-> 502, headers |-> TextPlain,
     body |-> <<"Failed to forward: ", "err">>]

\* handleRequest: the response synthesized when Forward returned an error
ErrorResponse(req) ==
    [request_id |-> req.id, status_code |-> 502, headers |-> TextPlain,
     body |-> <<"Failed to forward: ", "err">>]

ResponseEnvelope(resp) == [type |-> "response", payload |-> resp]
PongEnvelope == [type |-> "pong"]

\* ------------------------------------------------------------ initial state
\* no request content held
NoShape == [method |-> "", path |-> "", headers |-> {}, body |-> ""]

\* a handler goroutine: where it stands (pc), the route (kind), the tunnel
\* id of the path, the credentials, the id of the request it made (req),
\* the request id of the path (orig), whether its context is done (ctx),
\* the content of the stored request a replay read (shape), and what
\* ForwardRequest is returning while its deferred function runs (ret, err)
IdleHttp ==
    [pc |-> "idle", kind |-> "", tunnel |-> NoId, cred |-> NoCred,
     req |-> NoId, orig |-> NoId, ctx |-> FALSE, shape |-> NoShape,
     ret |-> NoResp, err |-> ""]

NoReply ==
    [kind |-> "", tunnel |-> NoId, cred |-> NoCred, orig |-> NoId,
     req |-> NoId, status |-> 0, ret |-> NoResp, err |-> "", body |-> <<>>,
     listing |-> <<>>]

\* a connection: the position of its handler, the tunnel registered on
\* it, the envelopes written to it, whether it is open, and (known) the
\* requests the server had written to any socket when it was accepted: a
\* client that reconnects still holds the requests it read before
IdleConn ==
    [pc |-> "idle", tunnel |-> NoId, out |-> <<>>, open |-> FALSE,
     known |-> {}]

\* the ids of the requests written to any socket so far
Written ==
    {id \in 1..MaxReqIds :
        \E c \in Conns : \E i \in DOMAIN conn[c].out :
            conn[c].out[i] = RequestEnvelope(id)}

\* WritePump before `go tunnel.WritePump()` and once it runs: in its select
\* (run), inside WriteMessage with the envelope it took (write), returned
OffWriter == [pc |-> "off", msg |-> <<>>]
RunWriter == [pc |-> "run", msg |-> <<>>]
ExitedWriter == [pc |-> "exited", msg |-> <<>>]

NoHandshake ==
    [conn |-> NoId,
     env |-> [kind |-> "", tunnel_id |-> NoId, token |-> NoToken]]

IdleReader == [pc |-> "off", resp |-> NoResp]

NoArrivals == [t \in TunnelIds |-> [any |-> EmptyMap, pend |-> EmptyMap]]

\* the history after tunnel t's reader decoded resp with pending table p
Arrive(a, t, p, resp) ==
    LET id == resp.request_id
    IN  [a EXCEPT
            ![t].any  = IF id \in DOMAIN @ THEN @ ELSE MapPut(@, id, resp),
            ![t].pend = IF id \in DOMAIN @ \/ id \notin DOMAIN p
                        THEN @ ELSE MapPut(@, id, resp)]

\* New(cfg): an empty store, an empty registry, no connection, no handler
InitWith(tok) ==
    /\ store = NewRequestStore(MaxRequests)
    /\ nextReq = 1
    /\ storedLog = [t \in TunnelIds |-> <<>>]
    /\ token = tok
    /\ srv = "serving"
    /\ registry = {}
    /\ nextTunnel = 1
    /\ tconn = [t \in TunnelIds |-> NoId]
    /\ done = [t \in TunnelIds |-> FALSE]
    /\ sendq = [t \in TunnelIds |-> <<>>]
    /\ pending = [t \in TunnelIds |-> EmptyMap]
    /\ chans = [t \in TunnelIds |-> NewChans]
    /\ clock = ZeroClock
    /\ reader = [t \in TunnelIds |-> IdleReader]
    /\ writer = [t \in TunnelIds |-> OffWriter]
    /\ conn = [c \in Conns |-> IdleConn]
    /\ http = [h \in Handlers |-> IdleHttp]
    /\ arrivals = NoArrivals
    /\ last = NoReply
    /\ hs = NoHandshake
    /\ ClientIdle

Init == \E tok \in {NoToken, Secret} : InitWith(tok) /\ probe = NoProbe

\* ----------------------------------------------------- handleWebSocket
\* s.upgrader.Upgrade succeeded; the handler blocks in conn.ReadMessage.
\* A new connection takes the lowest unused slot (the slots are
\* interchangeable).
Upgrade(c) ==
    /\ srv \in {"serving", "swept"}
    /\ conn[c].pc = "idle"
    /\ \A b \in Conns : b < c => conn[b].pc # "idle"
    /\ conn' = [conn EXCEPT ![c].pc = "upgraded", ![c].open = TRUE,
                            ![c].known = Written]
    /\ UNCHANGED <<storeVars, envVars, tunnelVars, pumpVars, http, arrivals, last, hs>>

\* the first read fails (peer closed, socket error): conn.Close, return
HandshakeReadError(c) ==
    /\ conn[c].pc = "upgraded"
    /\ conn' = [conn EXCEPT ![c].pc = "closed", ![c].open = FALSE]
    /\ UNCHANGED <<storeVars, envVars, tunnelVars, pumpVars, http, arrivals, last, hs>>

\* malformed envelope, wrong type or unparsable payload: conn.Close, return
HandshakeReject(c, env) ==
    /\ conn[c].pc = "upgraded"
    /\ HandshakeOutcome(token, env) = "close"
    /\ conn' = [conn EXCEPT ![c].pc = "closed", ![c].open = FALSE]
    /\ hs' = [conn |-> c, env |-> env]
    /\ UNCHANGED <<storeVars, envVars, tunnelVars, pumpVars, http, arrivals, last>>

\* token mismatch: one error envelope, conn.Close, return
HandshakeUnauthorized(c, env) ==
    /\ conn[c].pc = "upgraded"
    /\ HandshakeOutcome(token, env) = "unauthorized"
    /\ conn' = [conn EXCEPT ![c].pc = "closed", ![c].open = FALSE,
                            ![c].out = Append(@, ErrorEnvelope("unauthorized"))]
    /\ hs' = [conn |-> c, env |-> env]
    /\ UNCHANGED <<storeVars, envVars, tunnelVars, pumpVars, http, arrivals, last>>

\* s.registry.Register(conn, regPayload.TunnelID)
HandshakeRegister(c, env) ==
    /\ conn[c].pc = "upgraded"
    /\ HandshakeOutcome(token, env) = "register"
    /\ nextTunnel <= MaxTunnels
    /\ LET id == RegisterId(nextTunnel, env.tunnel_id)
       IN  /\ registry' = registry \cup {id}
           /\ tconn' = [tconn EXCEPT ![id] = c]
           /\ done' = [done EXCEPT ![id] = FALSE]
           /\ chans' = [chans EXCEPT ![id] = NewChans]
           /\ sendq' = [sendq EXCEPT ![id] = <<>>]
           /\ pending' = [pending EXCEPT ![id] = EmptyMap]
           /\ conn' = [conn EXCEPT ![c].pc = "registered", ![c].tunnel = id]
    /\ hs' = [conn |-> c, env |-> env]
    /\ nextTunnel' = nextTunnel + 1
    /\ UNCHANGED <<storeVars, envVars, pumpVars, http, arrivals, last>>

\* the pumps are started and the registered confirmation is not written
StartPumpsOnly(c) ==
    /\ conn[c].pc = "registered"
    /\ LET id == conn[c].tunnel
       IN  /\ conn' = [conn EXCEPT ![c].pc = "serving"]
           /\ reader' = [reader EXCEPT ![id] = [pc |-> "run", resp |-> NoResp]]
           /\ writer' = [writer EXCEPT ![id] = RunWriter]
           /\ clock' = [clock EXCEPT !.readDeadline[id] = clock.now + pongWait]
    /\ UNCHANGED <<storeVars, cfgVars, clientVars, probe, tunnelVars, http,
                   arrivals, last, hs>>

\* the registered confirmation is written, then `go tunnel.WritePump()` and
\* tunnel.ReadPump(s.registry), which begins with
\* t.conn.SetReadDeadline(time.Now().Add(pongWait))
SendRegistered(c) ==
    /\ conn[c].pc = "registered"
    /\ LET id == conn[c].tunnel
       IN  /\ conn' = [conn EXCEPT
                  ![c].pc = "serving",
                  ![c].out = IF conn[c].open
                             THEN Append(@, RegisteredEnvelope(id)) ELSE @]
           /\ reader' = [reader EXCEPT ![id] = [pc |-> "run", resp |-> NoResp]]
           /\ writer' = [writer EXCEPT ![id] = RunWriter]
           /\ clock' = [clock EXCEPT !.readDeadline[id] = clock.now + pongWait]
    /\ UNCHANGED <<storeVars, cfgVars, clientVars, probe, tunnelVars, http,
                   arrivals, last, hs>>

\* --------------------------------------------------------------- ReadPump
\* a response envelope is read and decoded: t.HandleResponse(&resp).  With
\* note, the history of arrivals records it.
ReaderResponseNoting(t, id, status, note) ==
    /\ reader[t].pc = "run"
    /\ LET resp == NewResponse(id, status)
       IN  /\ pending' = [pending EXCEPT ![t] = HandleResponse(@, resp)]
           /\ reader' = [reader EXCEPT ![t] = [pc |-> "store", resp |-> resp]]
           /\ arrivals' = IF note THEN Arrive(arrivals, t, pending[t], resp)
                          ELSE arrivals
    /\ UNCHANGED <<storeVars, envVars, registry, nextTunnel, tconn, done, chans, sendq,
                   writer, conn, http, last, hs>>

ReaderResponse(t, id, status) == ReaderResponseNoting(t, id, status, FALSE)

\* the same step, noted in the history of arrivals
ReaderResponseNoted(t, id, status) == ReaderResponseNoting(t, id, status, TRUE)

\* ... followed by registry.store.StoreResponse(&resp)
ReaderStore(t) ==
    /\ reader[t].pc = "store"
    /\ store' = StoreResponse(store, reader[t].resp)
    /\ reader' = [reader EXCEPT ![t] = [pc |-> "run", resp |-> NoResp]]
    /\ UNCHANGED <<nextReq, storedLog, envVars, tunnelVars, writer, conn, http,
                   arrivals, last, hs>>

\* what a mid-session envelope can be: not JSON, a response whose payload
\* does not decode, a response, a pong, any other tag
MidSessionKinds == {"malformed", "badpayload", "response", "pong", "other"}

\* the branch ReadPump's loop body takes for an envelope: `continue` after
\* a failed json.Unmarshal or ParsePayload, the response case, or the end
\* of the switch (pong: nothing; default: a log line)
ReadPumpCase(kind) ==
    IF kind = "malformed" THEN "continue"
    ELSE IF kind = "response" THEN "response"
    ELSE IF kind = "badpayload" THEN "continue"
    ELSE "continue"

\* ReadPump's `continue`: back to conn.ReadMessage()
ReaderContinue(t) ==
    /\ reader[t].pc = "continue"
    /\ reader' = [reader EXCEPT ![t].pc = "run"]
    /\ UNCHANGED <<storeVars, envVars, tunnelVars, writer, conn, http, arrivals,
                   last, hs>>

\* Unregister that deletes the entry and leaves the tunnel open
UnregisterKeepsOpen(reg, dn, ch, tunnelID) ==
    [tunnels |-> reg \ {tunnelID}, done |-> dn, chans |-> ch]

\* TunnelRegistry.Unregister on the registry, the done flags and the
\* channels: tunnel.Close() and delete(r.tunnels, tunnelID); the send
\* channel is left open
Unregister(reg, dn, ch, tunnelID) ==
    IF tunnelID \in reg
    THEN [tunnels |-> reg \ {tunnelID},
          done |-> [dn EXCEPT ![tunnelID] = TRUE],
          chans |-> [ch EXCEPT ![tunnelID] = Close(@)]]
    ELSE [tunnels |-> reg, done |-> dn, chans |-> ch]

\* a reader whose exit only closes the connection
ReaderFailKeepsEntry(t) ==
    /\ reader[t].pc = "run"
    /\ reader' = [reader EXCEPT ![t].pc = "closing"]
    /\ UNCHANGED <<storeVars, envVars, tunnelVars, writer, conn, http, arrivals,
                   last, hs>>

\* a reader that treats an envelope it cannot use as the handshake does,
\* as fatal to the tunnel, and reads on
ReaderDropFatal(t, kind) ==
    /\ reader[t].pc = "run"
    /\ ReadPumpCase(kind) = "continue"
    /\ LET u == Unregister(registry, done, chans, t)
       IN  /\ registry' = u.tunnels
           /\ done' = u.done
           /\ chans' = u.chans
    /\ reader' = [reader EXCEPT ![t].pc = "continue"]
    /\ UNCHANGED <<storeVars, envVars, nextTunnel, tconn, sendq, pending, writer,
                   conn, http, arrivals, last, hs>>

\* an envelope is read that is not a usable response: it is logged (a pong
\* is not even logged) and the loop goes round
ReaderDrop(t, kind) ==
    /\ reader[t].pc = "run"
    /\ ReadPumpCase(kind) = "continue"
    /\ reader' = [reader EXCEPT ![t].pc = "continue"]
    /\ UNCHANGED <<storeVars, envVars, tunnelVars, writer, conn, http, arrivals,
                   last, hs>>

\* conn.ReadMessage fails and ReadPump leaves its loop: the deferred
\* function begins with registry.Unregister(t.ID)
ReaderFail(t) ==
    /\ reader[t].pc = "run"
    /\ LET u == Unregister(registry, done, chans, t)
       IN  /\ registry' = u.tunnels
           /\ done' = u.done
           /\ chans' = u.chans
    /\ reader' = [reader EXCEPT ![t].pc = "closing"]
    /\ UNCHANGED <<storeVars, envVars, nextTunnel, tconn, sendq, pending, writer,
                   conn, http, arrivals, last, hs>>

\* ... and, the registry lock released, goes on to t.conn.Close(); then
\* ReadPump returns
ReaderClose(t) ==
    /\ reader[t].pc = "closing"
    /\ reader' = [reader EXCEPT ![t].pc = "exited"]
    /\ conn' = [conn EXCEPT ![tconn[t]].open = FALSE, ![tconn[t]].pc = "closed"]
    /\ UNCHANGED <<storeVars, envVars, tunnelVars, writer, http, arrivals,
                   last, hs>>

\* TunnelRegistry.CloseAll (the shutdown sweep of Server.Run): every
\* registered tunnel gets Close() and conn.Close() and leaves the registry
Sweep ==
    /\ registry' = {}
    /\ done' = [t \in TunnelIds |-> done[t] \/ t \in registry]
    /\ chans' = [t \in TunnelIds |->
                    IF t \in registry THEN Close(chans[t]) ELSE chans[t]]
    /\ conn' = [c \in Conns |->
                  IF \E t \in registry : tconn[t] = c
                  THEN [conn[c] EXCEPT !.open = FALSE]
                  ELSE conn[c]]
    /\ UNCHANGED <<storeVars, nextTunnel, tconn, sendq, pending, pumpVars, http,
                   arrivals, last, hs>>

\* a sweep that also forgets the requests of the tunnels it closes
CloseAllClears ==
    /\ registry # {}
    /\ registry' = {}
    /\ done' = [t \in TunnelIds |-> done[t] \/ t \in registry]
    /\ chans' = [t \in TunnelIds |->
                    IF t \in registry THEN Close(chans[t]) ELSE chans[t]]
    /\ conn' = [c \in Conns |->
                  IF \E t \in registry : tconn[t] = c
                  THEN [conn[c] EXCEPT !.open = FALSE]
                  ELSE conn[c]]
    /\ store' = [store EXCEPT
                    !.requests = [id \in {i \in DOMAIN @ :
                                            @[i].tunnel_id \notin registry}
                                  |-> @[id]],
                    !.byTunnel = [t \in TunnelIds |->
                                     IF t \in registry THEN <<>> ELSE @[t]]]
    /\ UNCHANGED <<nextReq, storedLog, envVars, nextTunnel, tconn, sendq,
                   pending, pumpVars, http, arrivals, last, hs>>

CloseAll ==
    /\ registry # {}
    /\ Sweep
    /\ UNCHANGED envVars

\* Server.Run, case <-ctx.Done(): s.registry.CloseAll() ...
RunCloseAll ==
    /\ srv = "serving"
    /\ Sweep
    /\ srv' = "swept"
    /\ UNCHANGED <<token, clientVars, probe, clock>>

\* ... and then srv.Shutdown(shutdownCtx): the listener is closed.  The
\* tunnel sockets are hijacked connections, which Shutdown neither closes
\* nor waits for, so their handlers run on.
RunShutdown ==
    /\ srv = "swept"
    /\ srv' = "stopped"
    /\ UNCHANGED <<storeVars, token, clientVars, probe, clock, tunnelVars,
                   pumpVars, conn, http, arrivals, last, hs>>

\* the other case of Run's select: ListenAndServe returned an error, which
\* Run returns as it is, with neither CloseAll nor Shutdown; the tunnels
\* already registered run on
RunListenError ==
    /\ srv = "serving"
    /\ srv' = "failed"
    /\ UNCHANGED <<storeVars, token, clientVars, probe, clock, tunnelVars,
                   pumpVars, conn, http, arrivals, last, hs>>

\* -------------------------------------------------------------- WritePump
\* a writer that takes the newest envelope of the queue
WriterTakeNewest(t) ==
    /\ writer[t].pc = "run"
    /\ sendq[t] # <<>>
    /\ sendq' = [sendq EXCEPT ![t] = SubSeq(@, 1, Len(@) - 1)]
    /\ writer' = [writer EXCEPT
                      ![t] = [pc |-> "write", msg |-> <<sendq[t][Len(sendq[t])]>>]]
    /\ UNCHANGED <<storeVars, envVars, registry, nextTunnel, tconn, done, chans, pending,
                   reader, conn, http, arrivals, last, hs>>

\* case message := <-t.send: the writer has the head of the queue, whose
\* slot is free again, and calls t.conn.WriteMessage
WriterTake(t) ==
    /\ writer[t].pc = "run"
    /\ sendq[t] # <<>>
    /\ sendq' = [sendq EXCEPT ![t] = Tail(@)]
    /\ writer' = [writer EXCEPT ![t] = [pc |-> "write", msg |-> <<Head(sendq[t])>>]]
    /\ UNCHANGED <<storeVars, envVars, registry, nextTunnel, tconn, done, chans, pending,
                   reader, conn, http, arrivals, last, hs>>

\* WriteMessage returns: the envelope is on the socket and the writer is
\* back in its select; on a socket the server has closed the write fails,
\* which ends the writer, whose deferred t.conn.Close() runs
WriterWrite(t) ==
    /\ writer[t].pc = "write"
    /\ IF conn[tconn[t]].open
       THEN /\ conn' = [conn EXCEPT ![tconn[t]].out = Append(@, writer[t].msg[1])]
            /\ writer' = [writer EXCEPT ![t] = RunWriter]
       ELSE /\ writer' = [writer EXCEPT ![t] = ExitedWriter]
            /\ UNCHANGED conn
    /\ UNCHANGED <<storeVars, envVars, tunnelVars, reader, http, arrivals, last, hs>>

\* a writer that returns on a failed write and leaves the socket open
WriterWriteErrorLeavesOpen(t, what) ==
    /\ writer[t].pc = IF what = "message" THEN "write" ELSE "run"
    /\ conn[tconn[t]].open
    /\ writer' = [writer EXCEPT ![t] = ExitedWriter]
    /\ UNCHANGED <<storeVars, envVars, tunnelVars, reader, conn, http, arrivals,
                   last, hs>>

\* WriteMessage returns an error on a connection the server has not closed
\* (the peer is gone, the write deadline passed), for the envelope the
\* writer took or, case <-ticker.C, for the ping: return, and the deferred
\* t.conn.Close().  A ping that is written changes nothing the model
\* records.
WriterWriteError(t, what) ==
    /\ writer[t].pc = IF what = "message" THEN "write" ELSE "run"
    /\ conn[tconn[t]].open
    /\ writer' = [writer EXCEPT ![t] = ExitedWriter]
    /\ conn' = [conn EXCEPT ![tconn[t]].open = FALSE]
    /\ UNCHANGED <<storeVars, envVars, tunnelVars, reader, http, arrivals, last, hs>>

\* case <-t.done: return (and the deferred t.conn.Close())
WriterDone(t) ==
    /\ writer[t].pc = "run"
    /\ done[t]
    /\ writer' = [writer EXCEPT ![t] = ExitedWriter]
    /\ conn' = [conn EXCEPT ![tconn[t]].open = FALSE]
    /\ UNCHANGED <<storeVars, envVars, tunnelVars, reader, http, arrivals, last, hs>>

\* ---------------------------------------------------------- HTTP handlers
\* A handler goroutine takes the lowest free slot (the slots are
\* interchangeable) and frees it when it has written its reply; the reply
\* it wrote is kept in `last`.
FreeSlot(h) ==
    /\ http[h].pc = "idle"
    /\ \A g \in Handlers : g < h => http[g].pc # "idle"

Reply(h, kind, t, cred, orig, req, status, ret, err) ==
    /\ http' = [http EXCEPT ![h] = IdleHttp]
    /\ last' = [kind |-> kind, tunnel |-> t, cred |-> cred, orig |-> orig,
                req |-> req, status |-> status, ret |-> ret, err |-> err,
                body |-> IF err # "" THEN ErrorBody(kind, req) ELSE <<>>,
                listing |-> IF kind = "list" /\ status = 200
                            THEN List(store, t) ELSE <<>>]

\* handleWebhook: the tunnel is not in the registry: 404
WebhookNotFound(h, t, cred) ==
    /\ FreeSlot(h)
    /\ ~RegistryGet(registry, t)
    /\ Reply(h, "webhook", t, cred, NoId, NoId, 404, NoResp, "")
    /\ UNCHANGED <<storeVars, envVars, tunnelVars, pumpVars, conn, arrivals, hs>>

\* the handlers that have passed their lookups and will draw a request id
Reserved ==
    Cardinality({h \in Handlers : http[h].pc \in {"body", "replay"}})

\* handleWebhook: s.registry.Get(tunnelID) finds the tunnel; the handler
\* goes on to read the body, holding no lock.  No more than `ids` requests
\* are made in a run.
WebhookGetUpTo(h, t, cred, ids) ==
    /\ FreeSlot(h)
    /\ RegistryGet(registry, t)
    /\ nextReq + Reserved <= ids
    /\ http' = [http EXCEPT ![h] = [IdleHttp EXCEPT
                   !.pc = "body", !.kind = "webhook", !.tunnel = t,
                   !.cred = cred]]
    /\ UNCHANGED <<storeVars, envVars, tunnelVars, pumpVars, conn, arrivals, last, hs>>

WebhookGet(h, t, cred) == WebhookGetUpTo(h, t, cred, MaxReqIds)

\* handleWebhook: reading the body fails: 413 (over the cap) or 400
WebhookBodyError(h, t, cred, status) ==
    /\ http[h].pc = "body"
    /\ http[h].tunnel = t /\ http[h].cred = cred
    /\ Reply(h, "webhook", t, cred, NoId, NoId, status, NoResp, "")
    /\ UNCHANGED <<storeVars, envVars, tunnelVars, pumpVars, conn, arrivals, hs>>

\* handleWebhook: the body is read, the request is made and
\* s.store.Store(tunnelID, req) is called, whatever has become of the
\* tunnel since the lookup
WebhookStore(h, t, cred, w) ==
    /\ http[h].pc = "body"
    /\ http[h].tunnel = t /\ http[h].cred = cred
    /\ store' = Store(store, t, NewRequest(nextReq, t, w))
    /\ storedLog' = [storedLog EXCEPT ![t] = Append(@, nextReq)]
    /\ nextReq' = nextReq + 1
    /\ http' = [http EXCEPT ![h].pc = "fwd", ![h].req = nextReq]
    /\ UNCHANGED <<envVars, tunnelVars, pumpVars, conn, arrivals, last, hs>>

\* authMiddleware in front of the /api routes: 401
ApiUnauthorized(h, kind, t, rid, cred) ==
    /\ FreeSlot(h)
    /\ ~checkAuth(token, cred)
    /\ Reply(h, kind, t, cred, rid, NoId, 401, NoResp, "")
    /\ UNCHANGED <<storeVars, envVars, tunnelVars, pumpVars, conn, arrivals, hs>>

\* handleListRequests: s.store.List(tunnelID) encoded as JSON, status 200
ApiList(h, t, cred) ==
    /\ FreeSlot(h)
    /\ checkAuth(token, cred)
    /\ Reply(h, "list", t, cred, NoId, NoId, 200, NoResp, "")
    /\ UNCHANGED <<storeVars, envVars, tunnelVars, pumpVars, conn, arrivals, hs>>

\* handleReplay: s.registry.Get(tunnelID) finds the tunnel
ApiReplayGet(h, t, rid, cred) ==
    /\ FreeSlot(h)
    /\ checkAuth(token, cred)
    /\ RegistryGet(registry, t)
    /\ http' = [http EXCEPT ![h] = [IdleHttp EXCEPT
                   !.pc = "lookup", !.kind = "replay", !.tunnel = t,
                   !.cred = cred, !.orig = rid]]
    /\ UNCHANGED <<storeVars, envVars, tunnelVars, pumpVars, conn, arrivals, last, hs>>

\* handleReplay: tunnel not found at registry.Get, or request not found or
\* owned by another tunnel at store.Get: 404
ApiReplayNotFound(h, t, rid, cred) ==
    /\ \/ /\ FreeSlot(h)
          /\ checkAuth(token, cred)
          /\ ~RegistryGet(registry, t)
       \/ /\ http[h].pc = "lookup"
          /\ http[h].tunnel = t /\ http[h].orig = rid /\ http[h].cred = cred
          /\ \/ ~StoreGet(store, rid)[2]
             \/ /\ StoreGet(store, rid)[2]
                /\ ~ReplayOwned(StoreGet(store, rid)[1], t)
    /\ Reply(h, "replay", t, cred, rid, NoId, 404, NoResp, "")
    /\ UNCHANGED <<storeVars, envVars, tunnelVars, pumpVars, conn, arrivals, hs>>

\* handleReplay: s.store.Get(requestID) finds the request and it belongs to
\* the tunnel; the handler holds the request it read
ApiReplayLookupUpTo(h, t, rid, cred, ids) ==
    /\ http[h].pc = "lookup"
    /\ http[h].tunnel = t /\ http[h].orig = rid /\ http[h].cred = cred
    /\ StoreGet(store, rid)[2]
    /\ ReplayOwned(StoreGet(store, rid)[1], t)
    /\ nextReq + Reserved <= ids
    /\ http' = [http EXCEPT ![h].pc = "replay",
                            ![h].shape = ShapeOf(StoreGet(store, rid)[1])]
    /\ UNCHANGED <<storeVars, envVars, tunnelVars, pumpVars, conn, arrivals, last, hs>>

ApiReplayLookup(h, t, rid, cred) ==
    ApiReplayLookupUpTo(h, t, rid, cred, MaxReqIds)

\* handleReplay: the copy is made and s.store.Store(tunnelID, replayReq) is
\* called, whatever has become of the tunnel and of the original since
ApiReplayStore(h, t, rid, cred) ==
    /\ http[h].pc = "replay"
    /\ http[h].tunnel = t /\ http[h].orig = rid /\ http[h].cred = cred
    /\ store' = Store(store, t, NewRequest(nextReq, t, http[h].shape))
    /\ storedLog' = [storedLog EXCEPT ![t] = Append(@, nextReq)]
    /\ nextReq' = nextReq + 1
    /\ http' = [http EXCEPT ![h].pc = "fwd", ![h].req = nextReq,
                            ![h].shape = NoShape]
    /\ UNCHANGED <<envVars, tunnelVars, pumpVars, conn, arrivals, last, hs>>

\* the handler's context is done: the responseWait deadline elapsed or the
\* caller went away
CtxDone(h) ==
    /\ http[h].pc \in {"fwd", "enqueue", "wait"}
    /\ ~http[h].ctx
    /\ http' = [http EXCEPT ![h].ctx = TRUE]
    /\ UNCHANGED <<storeVars, envVars, tunnelVars, pumpVars, conn, arrivals, last, hs>>

\* --------------------------------------------------- Tunnel.ForwardRequest
\* t.pending[req.ID] = respChan.  (The request's credentials, which nothing
\* reads after the middleware, are not carried further.)
ForwardRegister(h) ==
    /\ http[h].pc = "fwd"
    /\ pending' = [pending EXCEPT
           ![http[h].tunnel] = MapPut(@, http[h].req, <<>>)]
    /\ http' = [http EXCEPT ![h].pc = "enqueue", ![h].cred = NoCred]
    /\ UNCHANGED <<storeVars, envVars, registry, nextTunnel, tconn, done, chans, sendq,
                   pumpVars, conn, arrivals, last, hs>>

\* ForwardRequest reaches a return statement with ret or the error err; a
\* response that is returned was received from respChan, which is empty
\* again.  The deferred function has not run yet.
ForwardReturn(h, ret, err) ==
    /\ pending' = IF err = ""
                  THEN [pending EXCEPT ![http[h].tunnel][http[h].req] = <<>>]
                  ELSE pending
    /\ http' = [http EXCEPT ![h].pc = "defer", ![h].ret = ret, ![h].err = err]
    /\ UNCHANGED <<storeVars, envVars, registry, nextTunnel, tconn, done, chans, sendq,
                   pumpVars, conn, arrivals, last, hs>>

\* the deferred function takes pendingMu and runs delete(t.pending, req.ID);
\* ForwardRequest has returned and the handler answers: 502 on an error,
\* else the response's status (webhook) or 200 with the JSON result
\* (replay)
ForwardDeferred(h) ==
    /\ http[h].pc = "defer"
    /\ pending' = [pending EXCEPT
           ![http[h].tunnel] = ForwardCleanup(@, http[h].req)]
    /\ Reply(h, http[h].kind, http[h].tunnel, http[h].cred, http[h].orig,
             http[h].req,
             IF http[h].err # "" THEN 502
             ELSE IF http[h].kind = "webhook" THEN http[h].ret.status_code
             ELSE 200,
             http[h].ret, http[h].err)
    /\ UNCHANGED <<storeVars, envVars, registry, nextTunnel, tconn, done, chans, sendq,
                   pumpVars, conn, arrivals, hs>>

\* protocol.NewMessage or json.Marshal returns an error
ForwardEncodeError(h) ==
    /\ http[h].pc = "enqueue"
    /\ ForwardReturn(h, NoResp, "encode")

\* first select, case t.send <- data
ForwardEnqueue(h) ==
    /\ http[h].pc = "enqueue"
    /\ Len(sendq[http[h].tunnel]) < chans[http[h].tunnel].cap
    /\ sendq' = [sendq EXCEPT
           ![http[h].tunnel] = Append(@, RequestEnvelope(http[h].req))]
    /\ http' = [http EXCEPT ![h].pc = "wait"]
    /\ UNCHANGED <<storeVars, envVars, registry, nextTunnel, tconn, done, chans,
                   pending, pumpVars, conn, arrivals, last, hs>>

\* first select, case <-ctx.Done()
ForwardEnqueueCtx(h) ==
    /\ http[h].pc = "enqueue"
    /\ http[h].ctx
    /\ ForwardReturn(h, NoResp, "ctx")

\* first select, case <-t.done
ForwardEnqueueClosed(h) ==
    /\ http[h].pc = "enqueue"
    /\ done[http[h].tunnel]
    /\ ForwardReturn(h, NoResp, "closed")

\* second select, case resp := <-respChan
ForwardWaitResp(h) ==
    /\ http[h].pc = "wait"
    /\ pending[http[h].tunnel][http[h].req] # <<>>
    /\ ForwardReturn(h, Head(pending[http[h].tunnel][http[h].req]), "")

\* second select, case <-ctx.Done()
ForwardWaitCtx(h) ==
    /\ http[h].pc = "wait"
    /\ http[h].ctx
    /\ ForwardReturn(h, NoResp, "ctx")

\* a second select without the done case: a closed tunnel is noticed only
\* when the context expires
ForwardWaitClosedLate(h) ==
    /\ http[h].pc = "wait"
    /\ done[http[h].tunnel] /\ http[h].ctx
    /\ ForwardReturn(h, NoResp, "ctx")

\* second select, case <-t.done
ForwardWaitClosed(h) ==
    /\ http[h].pc = "wait"
    /\ done[http[h].tunnel]
    /\ ForwardReturn(h, NoResp, "closed")

Forward(h) ==
    \/ ForwardRegister(h)
    \/ ForwardEncodeError(h)
    \/ ForwardEnqueue(h)
    \/ ForwardEnqueueCtx(h)
    \/ ForwardEnqueueClosed(h)
    \/ ForwardWaitResp(h)
    \/ ForwardWaitCtx(h)
    \/ ForwardWaitClosed(h)
    \/ ForwardDeferred(h)

\* ForwardRequest on a tunnel whose client sends no response: every step
\* but the receive from respChan
ForwardUnanswered(h) ==
    \/ ForwardRegister(h)
    \/ ForwardEncodeError(h)
    \/ ForwardEnqueue(h)
    \/ ForwardEnqueueCtx(h)
    \/ ForwardEnqueueClosed(h)
    \/ ForwardWaitCtx(h)
    \/ ForwardWaitClosed(h)
    \/ ForwardDeferred(h)

\* -------------------------------------------- the store driven on its own
InitStore == InitWith(NoToken) /\ probe = NoProbe

\* s.store.Store(tunnelID, req) as the handlers call it: a fresh id, and
\* req.TunnelID = tunnelID
CallStore(t, w) ==
    /\ nextReq <= MaxStored
    /\ store' = Store(store, t, NewRequest(nextReq, t, w))
    /\ nextReq' = nextReq + 1
    /\ storedLog' = [storedLog EXCEPT ![t] = Append(@, nextReq)]
    /\ UNCHANGED <<envVars, tunnelVars, pumpVars, conn, http, arrivals, last, hs>>

\* registry.store.StoreResponse(&resp): the request id is whatever the
\* client put in the envelope
CallStoreResponse(id, status) ==
    /\ store' = StoreResponse(store, NewResponse(id, status))
    /\ UNCHANGED <<nextReq, storedLog, envVars, tunnelVars, pumpVars, conn, http,
                   arrivals, last, hs>>

CallClear(t) ==
    /\ store' = Clear(store, t)
    /\ storedLog' = [storedLog EXCEPT ![t] = <<>>]
    /\ UNCHANGED <<nextReq, envVars, tunnelVars, pumpVars, conn, http, arrivals, last, hs>>

NextStore ==
    \/ \E t \in TunnelIds : CallStore(t, PostShape)
    \/ \E id \in 1..MaxStored : CallStoreResponse(id, 200)
    \/ \E t \in TunnelIds : CallClear(t)

SpecStore == InitStore /\ [][NextStore]_vars

\* ------------------------------------- one live tunnel and its callers
\* the state after one client completed the handshake (no token configured)
\* the tunnels of `live` are registered and served: for each, one client
\* completed the handshake on the connection of the same number
LiveTunnels(live) ==
    /\ registry = live
    /\ nextTunnel = Cardinality(live) + 1
    /\ tconn = [t \in TunnelIds |-> IF t \in live THEN t ELSE NoId]
    /\ done = [t \in TunnelIds |-> FALSE]
    /\ sendq = [t \in TunnelIds |-> <<>>]
    /\ pending = [t \in TunnelIds |-> EmptyMap]
    /\ chans = [t \in TunnelIds |-> NewChans]
    /\ clock = [now |-> 0,
                readDeadline |->
                    [t \in TunnelIds |-> IF t \in live THEN pongWait ELSE 0]]
    /\ reader = [t \in TunnelIds |->
                    IF t \in live THEN [pc |-> "run", resp |-> NoResp]
                    ELSE IdleReader]
    /\ writer = [t \in TunnelIds |-> IF t \in live THEN RunWriter ELSE OffWriter]
    /\ conn = [c \in Conns |->
                  IF c \in live
                  THEN [pc |-> "serving", tunnel |-> c,
                        out |-> <<RegisteredEnvelope(c)>>, open |-> TRUE,
                        known |-> {}]
                  ELSE IdleConn]

LiveTunnelOne == LiveTunnels({1})

InitTunnel ==
    /\ token = NoToken
    /\ srv = "serving"
    /\ store = NewRequestStore(SmallStore)
    /\ nextReq = 1
    /\ storedLog = [t \in TunnelIds |-> <<>>]
    /\ LiveTunnelOne
    /\ http = [h \in Handlers |-> IdleHttp]
    /\ arrivals = NoArrivals
    /\ last = NoReply
    /\ hs = NoHandshake
    /\ ClientIdle
    /\ probe = NoProbe

ReqIds == 1..MaxReqIds

\* a client answers the requests it has read, on the connection c.conn
\* names when the answer is ready: the requests written to this socket,
\* and those a client that reconnected read on a socket it had before.
\* Whether the caller still waits is not something it can know.
Answered(t, id) ==
    /\ tconn[t] \in Conns
    /\ \/ \E i \in DOMAIN conn[tconn[t]].out :
              conn[tconn[t]].out[i] = RequestEnvelope(id)
       \/ id \in conn[tconn[t]].known

\* two webhooks at a time
TwoCallers == {1, 2}

NextTunnel ==
    \/ \E h \in TwoCallers :
           WebhookGet(h, 1, NoCred)
    \/ \E h \in TwoCallers :
           WebhookStore(h, 1, NoCred, PostShape)
    \/ \E h \in TwoCallers : WebhookNotFound(h, 1, NoCred)
    \/ \E h \in TwoCallers : CtxDone(h)
    \/ \E h \in TwoCallers : Forward(h)
    \/ \E id \in ReqIds : Answered(1, id) /\ ReaderResponseNoted(1, id, 200)
    \/ ReaderStore(1)
    \/ ReaderFail(1)
    \/ ReaderClose(1)
    \/ WriterTake(1)
    \/ WriterWrite(1)
    \/ WriterDone(1)

SpecTunnel == InitTunnel /\ [][NextTunnel]_vars

\* --------------------- one caller at a time, responses that can be told apart
NextDup ==
    \/ \E h \in {1} :
           nextReq <= MaxDupRequests /\ WebhookGet(h, 1, NoCred)
    \/ \E h \in {1} :
           WebhookStore(h, 1, NoCred, PostShape)
    \/ \E h \in {1} : WebhookNotFound(h, 1, NoCred)
    \/ \E h \in {1} : CtxDone(h)
    \/ \E h \in {1} : Forward(h)
    \/ \E id \in ReqIds, st \in Statuses : ReaderResponseNoted(1, id, st)
    \/ ReaderStore(1)
    \/ ReaderFail(1)
    \/ ReaderClose(1)
    \/ WriterTake(1)
    \/ WriterWrite(1)
    \/ WriterDone(1)

SpecDup == InitTunnel /\ [][NextDup]_vars

\* ------------------------------------------------------- the whole server
\* the credentials tried on the webhook route
WebhookCreds == {NoCred, [auth |-> Bearer(Wrong), query |-> <<>>]}

\* HTTP requests served one at a time
OneHandler == {1}

\* the credentials of a caller that knows the configured token
GoodCred ==
    [auth |-> IF token = NoToken THEN <<>> ELSE Bearer(token), query |-> <<>>]

\* two clients, A = 1 and B = 2, completed the handshake
InitPair ==
    \E tok \in {NoToken, Secret} :
        /\ token = tok
        /\ srv = "serving"
        /\ store = NewRequestStore(MaxRequests)
        /\ nextReq = 1
        /\ storedLog = [t \in TunnelIds |-> <<>>]
        /\ LiveTunnels({1, 2})
        /\ http = [h \in Handlers |-> IdleHttp]
        /\ arrivals = NoArrivals
        /\ last = NoReply
        /\ hs = NoHandshake
        /\ ClientIdle
        /\ probe = NoProbe

\* the tunnels of A and B
PairTunnels == {1, 2}

\* webhooks, listings and replays addressed to either tunnel, by a caller
\* that knows the token; the clients take the requests and send nothing
NextServer ==
    \/ \E t \in PairTunnels : ReaderFail(t)
    \/ \E t \in PairTunnels : ReaderClose(t)
    \/ \E t \in PairTunnels : WriterTake(t)
    \/ \E t \in PairTunnels : WriterWrite(t)
    \/ \E t \in PairTunnels : WriterDone(t)
    \/ \E h \in OneHandler, t \in PairTunnels : WebhookNotFound(h, t, NoCred)
    \/ \E h \in OneHandler, t \in PairTunnels :
           WebhookBodyError(h, t, NoCred, 413)
    \/ \E h \in OneHandler, t \in PairTunnels :
           WebhookGet(h, t, NoCred)
    \/ \E h \in OneHandler, t \in PairTunnels :
           WebhookStore(h, t, NoCred, PostShape)
    \/ \E h \in OneHandler, t \in PairTunnels : ApiList(h, t, GoodCred)
    \/ \E h \in OneHandler, t \in PairTunnels, rid \in ReqIds :
           ApiReplayNotFound(h, t, rid, GoodCred)
    \/ \E h \in OneHandler, t \in PairTunnels, rid \in ReqIds :
           ApiReplayGet(h, t, rid, GoodCred)
    \/ \E h \in OneHandler, t \in PairTunnels, rid \in ReqIds :
           ApiReplayLookup(h, t, rid, GoodCred)
    \/ \E h \in OneHandler, t \in PairTunnels, rid \in ReqIds :
           ApiReplayStore(h, t, rid, GoodCred)
    \/ \E h \in OneHandler : CtxDone(h)
    \/ \E h \in OneHandler : ForwardUnanswered(h)

\* both tunnels live, the server configured with a token
InitServer == InitPair /\ token = Secret

Spec == InitServer /\ [][NextServer]_vars

\* two tunnels whose clients send response envelopes with any request id
NextCross ==
    \/ \E t \in TunnelIds, id \in ReqIds : ReaderResponse(t, id, 200)
    \/ \E t \in TunnelIds : ReaderStore(t)
    \/ \E t \in TunnelIds : ReaderFail(t)
    \/ \E t \in TunnelIds : ReaderClose(t)
    \/ \E t \in TunnelIds : WriterTake(t)
    \/ \E t \in TunnelIds : WriterWrite(t)
    \/ \E h \in OneHandler, t \in TunnelIds :
           WebhookGet(h, t, NoCred)
    \/ \E h \in OneHandler, t \in TunnelIds :
           WebhookStore(h, t, NoCred, PostShape)
    \/ \E h \in OneHandler, t \in TunnelIds : ApiList(h, t, GoodCred)
    \/ \E h \in OneHandler : CtxDone(h)
    \/ \E h \in OneHandler : Forward(h)

SpecCross == InitPair /\ [][NextCross]_vars

\* ------------------------------------- the HTTP surface of one live tunnel
\* (its client takes the requests and sends nothing)
InitAuth ==
    \E tok \in {NoToken, Secret} :
        /\ token = tok
        /\ srv = "serving"
        /\ store = NewRequestStore(SmallStore)
        /\ nextReq = 1
        /\ storedLog = [t \in TunnelIds |-> <<>>]
        /\ LiveTunnelOne
        /\ http = [h \in Handlers |-> IdleHttp]
        /\ arrivals = NoArrivals
        /\ last = NoReply
        /\ hs = NoHandshake
        /\ ClientIdle
        /\ probe = NoProbe

NextAuth ==
    \/ \E h \in OneHandler, t \in TunnelIds, cred \in WebhookCreds :
           WebhookNotFound(h, t, cred)
    \/ \E h \in OneHandler, t \in TunnelIds, cred \in WebhookCreds :
           WebhookGet(h, t, cred)
    \/ \E h \in OneHandler, t \in TunnelIds, cred \in WebhookCreds :
           WebhookBodyError(h, t, cred, 413)
    \/ \E h \in OneHandler, t \in TunnelIds, cred \in WebhookCreds :
           WebhookStore(h, t, cred, PostShape)
    \/ \E h \in OneHandler, cred \in Creds :
           ApiUnauthorized(h, "list", 1, NoId, cred)
    \/ \E h \in OneHandler, rid \in ReqIds, cred \in Creds :
           ApiUnauthorized(h, "replay", 1, rid, cred)
    \/ \E h \in OneHandler, cred \in Creds : ApiList(h, 1, cred)
    \/ \E h \in OneHandler, rid \in ReqIds, cred \in Creds :
           ApiReplayNotFound(h, 1, rid, cred)
    \/ \E h \in OneHandler, rid \in ReqIds, cred \in Creds :
           ApiReplayGet(h, 1, rid, cred)
    \/ \E h \in OneHandler, rid \in ReqIds, cred \in Creds :
           ApiReplayLookup(h, 1, rid, cred)
    \/ \E h \in OneHandler, rid \in ReqIds, cred \in Creds :
           ApiReplayStore(h, 1, rid, cred)
    \/ \E h \in OneHandler : CtxDone(h)
    \/ \E h \in OneHandler : ForwardUnanswered(h)
    \/ ReaderFail(1)
    \/ ReaderClose(1)
    \/ WriterTake(1)
    \/ WriterWrite(1)
    \/ WriterDone(1)
    \/ CloseAll

SpecAuth == InitAuth /\ [][NextAuth]_vars

\* --------------------------- replays among the webhooks of one live tunnel
\* two handlers at a time on tunnel 1, whose store keeps SmallStore
\* requests: a webhook can be stored, and the tunnel can leave the
\* registry, between the lookups of a replay and its Store; the queue
\* holds what it accepts (the client reads nothing)
\* one request more than elsewhere: an original, a webhook that evicts it
\* and the copy
ReplayIds == MaxReqIds + 1

NextReplay ==
    \/ \E h \in TwoCallers : WebhookGetUpTo(h, 1, NoCred, ReplayIds)
    \/ \E h \in TwoCallers : WebhookStore(h, 1, NoCred, PostShape)
    \/ \E h \in TwoCallers, rid \in ReqIds :
           ApiReplayNotFound(h, 1, rid, GoodCred)
    \/ \E h \in TwoCallers, rid \in ReqIds : ApiReplayGet(h, 1, rid, GoodCred)
    \/ \E h \in TwoCallers, rid \in ReqIds :
           ApiReplayLookupUpTo(h, 1, rid, GoodCred, ReplayIds)
    \/ \E h \in TwoCallers, rid \in ReqIds :
           ApiReplayStore(h, 1, rid, GoodCred)
    \/ \E h \in TwoCallers : CtxDone(h)
    \/ \E h \in TwoCallers : ForwardUnanswered(h)
    \/ ReaderFail(1)
    \/ ReaderClose(1)

SpecReplay == InitTunnel /\ [][NextReplay]_vars

\* ------------------------------------- every path that shuts a tunnel down
\* t.Close() called on a tunnel Register returned, by any holder of it
CallClose(t) ==
    /\ t < nextTunnel
    /\ done' = [done EXCEPT ![t] = TRUE]
    /\ chans' = [chans EXCEPT ![t] = Close(@)]
    /\ UNCHANGED <<storeVars, envVars, registry, nextTunnel, tconn, sendq,
                   pending, pumpVars, conn, http, arrivals, last, hs>>

NextClose ==
    \/ \E h \in TwoCallers :
           WebhookGet(h, 1, NoCred)
    \/ \E h \in TwoCallers :
           WebhookStore(h, 1, NoCred, PostShape)
    \/ \E h \in TwoCallers : WebhookNotFound(h, 1, NoCred)
    \/ \E h \in TwoCallers : CtxDone(h)
    \/ \E h \in TwoCallers : Forward(h)
    \/ \E id \in ReqIds : Answered(1, id) /\ ReaderResponse(1, id, 200)
    \/ ReaderStore(1)
    \/ ReaderFail(1)
    \/ ReaderClose(1)
    \/ CloseAll
    \/ CallClose(1)
    \/ WriterTake(1)
    \/ WriterWrite(1)
    \/ WriterDone(1)

SpecClose == InitTunnel /\ [][NextClose]_vars

\* ---------------------------------- a tunnel's goroutines, fairly scheduled
\* conn.ReadMessage on a connection that was closed returns an error
ReaderFailClosed(t) == ~conn[tconn[t]].open /\ ReaderFail(t)

\* the two selects of ForwardRequest
SelectEnqueue(h) ==
    ForwardEnqueue(h) \/ ForwardEnqueueCtx(h) \/ ForwardEnqueueClosed(h)

SelectWait(h) ==
    ForwardWaitResp(h) \/ ForwardWaitCtx(h) \/ ForwardWaitClosed(h)

\* two webhooks in all, one for each caller
PumpCalls == Cardinality(TwoCallers)

NextPumps ==
    \/ \E h \in TwoCallers :
           nextReq + Reserved <= PumpCalls /\ WebhookGet(h, 1, NoCred)
    \/ \E h \in TwoCallers :
           WebhookStore(h, 1, NoCred, PostShape)
    \/ \E h \in TwoCallers : CtxDone(h)
    \/ \E h \in TwoCallers : Forward(h)
    \/ \E id \in ReqIds : Answered(1, id) /\ ReaderResponse(1, id, 200)
    \/ ReaderStore(1)
    \/ ReaderFail(1)
    \/ ReaderClose(1)
    \/ CloseAll
    \/ WriterTake(1)
    \/ WriterWrite(1)
    \/ \E what \in {"message", "ping"} : WriterWriteError(1, what)
    \/ WriterDone(1)

SpecPumps == InitTunnel /\ [][NextPumps]_vars

\* WriteMessage returns, with or without an error (the writer sets a write
\* deadline before each write)
WriterWriteReturns(t) == WriterWrite(t) \/ WriterWriteError(t, "message")

\* A goroutine that can take a step takes one: a select with a ready case
\* proceeds, a deferred function runs, a write returns, and WritePump's
\* select, which picks among its ready cases at random, picks done once it
\* is closed; a read on a closed connection fails after the frames already
\* buffered.  The timers of the contexts and what the peer does are not
\* assumed.
SpecPumpsLive ==
    /\ SpecPumps
    /\ \A h \in TwoCallers :
           /\ WF_vars(ForwardRegister(h))
           /\ WF_vars(SelectEnqueue(h))
           /\ WF_vars(SelectWait(h))
           /\ WF_vars(ForwardDeferred(h))
    /\ WF_vars(ReaderStore(1))
    /\ SF_vars(ReaderFailClosed(1))
    /\ WF_vars(ReaderClose(1))
    /\ WF_vars(WriterWriteReturns(1))
    /\ WF_vars(WriterDone(1))

\* the pumps with a peer that also sends envelopes the reader cannot use
NextDrop ==
    \/ \E h \in TwoCallers :
           WebhookGet(h, 1, NoCred)
    \/ \E h \in TwoCallers :
           WebhookStore(h, 1, NoCred, PostShape)
    \/ \E h \in TwoCallers : CtxDone(h)
    \/ \E h \in TwoCallers : Forward(h)
    \/ \E id \in ReqIds : Answered(1, id) /\ ReaderResponse(1, id, 200)
    \/ ReaderStore(1)
    \/ \E kind \in MidSessionKinds : ReaderDrop(1, kind)
    \/ ReaderContinue(1)
    \/ ReaderFail(1)
    \/ ReaderClose(1)
    \/ WriterTake(1)
    \/ WriterWrite(1)
    \/ WriterDone(1)

SpecDrop == InitTunnel /\ [][NextDrop]_vars

\* the same tunnel with room for one more envelope in t.send (the channel
\* of Register holds 256), so that envelopes wait behind one another
InitQueue ==
    /\ token = NoToken
    /\ srv = "serving"
    /\ store = NewRequestStore(SmallStore)
    /\ nextReq = 1
    /\ storedLog = [t \in TunnelIds |-> <<>>]
    /\ registry = {1}
    /\ nextTunnel = 2
    /\ tconn = [t \in TunnelIds |-> IF t = 1 THEN 1 ELSE NoId]
    /\ done = [t \in TunnelIds |-> FALSE]
    /\ sendq = [t \in TunnelIds |-> <<>>]
    /\ pending = [t \in TunnelIds |-> EmptyMap]
    /\ chans = [t \in TunnelIds |-> [NewChans EXCEPT !.cap = SendCap + 1]]
    /\ clock = [now |-> 0,
                readDeadline |->
                    [t \in TunnelIds |-> IF t = 1 THEN pongWait ELSE 0]]
    /\ reader = [t \in TunnelIds |->
                    IF t = 1 THEN [pc |-> "run", resp |-> NoResp]
                    ELSE IdleReader]
    /\ writer = [t \in TunnelIds |-> IF t = 1 THEN RunWriter ELSE OffWriter]
    /\ conn = [c \in Conns |->
                  IF c = 1
                  THEN [pc |-> "serving", tunnel |-> c,
                        out |-> <<RegisteredEnvelope(c)>>, open |-> TRUE,
                        known |-> {}]
                  ELSE IdleConn]
    /\ http = [h \in Handlers |-> IdleHttp]
    /\ arrivals = NoArrivals
    /\ last = NoReply
    /\ hs = NoHandshake
    /\ ClientIdle
    /\ probe = NoProbe

SpecQueue == InitQueue /\ [][NextPumps]_vars

\* ------------------------------------------------- the reader and the clock
\* a second passes.  A read that is blocked when its deadline arrives fails
\* then: time does not move past the deadline of a reading reader.
Tick ==
    /\ clock.now < MaxTime
    /\ \A t \in TunnelIds :
           reader[t].pc = "run" => clock.now < clock.readDeadline[t]
    /\ clock' = [clock EXCEPT !.now = @ + 1]
    /\ UNCHANGED <<storeVars, cfgVars, clientVars, probe, tunnelVars, pumpVars,
                   conn, http, arrivals, last, hs>>

\* ReadMessage meets a transport pong: the handler set by SetPongHandler
\* runs t.conn.SetReadDeadline(time.Now().Add(pongWait))
ReaderPong(t) ==
    /\ reader[t].pc = "run"
    /\ clock.now < clock.readDeadline[t]
    /\ clock' = [clock EXCEPT !.readDeadline[t] = clock.now + pongWait]
    /\ UNCHANGED <<storeVars, cfgVars, clientVars, probe, tunnelVars, pumpVars,
                   conn, http, arrivals, last, hs>>

\* the read deadline has arrived: ReadMessage returns a timeout error
ReaderDeadline(t) == clock.now >= clock.readDeadline[t] /\ ReaderFail(t)

\* a peer that sends response envelopes whenever it likes, and pongs or not
NextDeadline ==
    \/ Tick
    \/ ReaderPong(1)
    \/ \E id \in ReqIds :
           clock.now < clock.readDeadline[1] /\ ReaderResponse(1, id, 200)
    \/ ReaderStore(1)
    \/ ReaderDeadline(1)
    \/ ReaderClose(1)

SpecDeadline == InitTunnel /\ [][NextDeadline]_vars

\* ------------------------------------------------------------ the handshake
NextHandshake ==
    \/ \E c \in Conns : Upgrade(c)
    \/ \E c \in Conns : HandshakeReadError(c)
    \/ \E c \in Conns, env \in FirstEnvelopes : HandshakeReject(c, env)
    \/ \E c \in Conns, env \in FirstEnvelopes : HandshakeUnauthorized(c, env)
    \/ \E c \in Conns, env \in FirstEnvelopes : HandshakeRegister(c, env)
    \/ \E c \in Conns : SendRegistered(c)
    \/ \E t \in TunnelIds : ReaderFail(t)
    \/ \E t \in TunnelIds : ReaderClose(t)
    \/ \E t \in TunnelIds : WriterDone(t)
    \/ CloseAll

SpecHandshake == Init /\ [][NextHandshake]_vars

\* The server's own steps are taken when they can be: the handler goes on
\* after Register and the pumps notice done.  Whether and when a peer sends
\* its first envelope or drops the connection is up to the peer, and
\* handleWebSocket sets no read deadline before its conn.ReadMessage(), so
\* no step of the server ends that read.
SpecHandshakeLive ==
    /\ SpecHandshake
    /\ \A c \in Conns : WF_vars(SendRegistered(c))
    /\ \A t \in TunnelIds : WF_vars(ReaderClose(t))
    /\ \A t \in TunnelIds : WF_vars(WriterDone(t))

\* ------------------------------------- handshakes and webhooks together
\* the first envelopes tried: a register with the right token, a register
\* with a wrong one, and an envelope of another type
ServeEnvelopes ==
    { [kind |-> "register", tunnel_id |-> NoId, token |-> k] : k \in {Secret, Wrong} }
    \cup { [kind |-> "other", tunnel_id |-> NoId, token |-> NoToken] }

\* two connections, and the tunnels registered on them
TwoConns == {1, 2}

NextServe ==
    \/ \E c \in TwoConns : Upgrade(c)
    \/ \E c \in TwoConns : HandshakeReadError(c)
    \/ \E c \in TwoConns, env \in ServeEnvelopes : HandshakeReject(c, env)
    \/ \E c \in TwoConns, env \in ServeEnvelopes : HandshakeUnauthorized(c, env)
    \/ \E c \in TwoConns, env \in ServeEnvelopes : HandshakeRegister(c, env)
    \/ \E c \in TwoConns : SendRegistered(c)
    \/ \E h \in OneHandler, t \in TwoConns :
           WebhookGet(h, t, NoCred)
    \/ \E h \in OneHandler, t \in TwoConns :
           WebhookStore(h, t, NoCred, PostShape)
    \/ \E h \in OneHandler : CtxDone(h)
    \/ \E h \in OneHandler : Forward(h)
    \/ \E t \in TwoConns, id \in ReqIds :
           Answered(t, id) /\ ReaderResponse(t, id, 200)
    \/ \E t \in TwoConns : ReaderStore(t)
    \/ \E t \in TwoConns : ReaderFail(t)
    \/ \E t \in TwoConns : ReaderClose(t)
    \/ \E t \in TwoConns : WriterTake(t)
    \/ \E t \in TwoConns : WriterWrite(t)
    \/ \E t \in TwoConns : WriterDone(t)

InitServe == InitWith(Secret) /\ probe = NoProbe

SpecServe == InitServe /\ [][NextServe]_vars

\* a second registration, reader exits and the shutdown sweep among the
\* Store calls, stored responses, listings and Clear of tunnel 1
NextSweep ==
    \/ \E c \in TwoConns : Upgrade(c)
    \/ \E c \in TwoConns, env \in ServeEnvelopes : HandshakeRegister(c, env)
    \/ \E c \in TwoConns : SendRegistered(c)
    \/ CallStore(1, PostShape)
    \/ \E id \in ReqIds : ReaderResponse(1, id, 200)
    \/ ReaderStore(1)
    \/ \E t \in TwoConns : ReaderFail(t)
    \/ \E t \in TwoConns : ReaderClose(t)
    \/ CloseAll
    \/ \E h \in OneHandler : ApiList(h, 1, GoodCred)
    \/ CallClear(1)

\* tunnel 1 is live and its store keeps SmallStore requests per tunnel
SpecSweep == InitTunnel /\ [][NextSweep]_vars

\* the handshakes and the pumps of two connections while Server.Run shuts
\* down
NextShutdown ==
    \/ \E c \in TwoConns : Upgrade(c)
    \/ \E c \in TwoConns : HandshakeReadError(c)
    \/ \E c \in TwoConns, env \in ServeEnvelopes : HandshakeReject(c, env)
    \/ \E c \in TwoConns, env \in ServeEnvelopes : HandshakeRegister(c, env)
    \/ \E c \in TwoConns : SendRegistered(c)
    \/ \E t \in TwoConns : ReaderFail(t)
    \/ \E t \in TwoConns : ReaderClose(t)
    \/ \E t \in TwoConns : WriterDone(t)
    \/ RunCloseAll
    \/ RunShutdown
    \/ RunListenError

\* New(cfg) with no token, Run serving
InitShutdown == InitWith(NoToken) /\ probe = NoProbe

SpecShutdown == InitShutdown /\ [][NextShutdown]_vars

\* --------------------------------------------------------------- Client.Run
\* the forwarder New(cfg) builds for a configuration without routes
OneTarget == [defaultTarget |-> "T", routes |-> <<>>]

ConnectFailures ==
    {"url", "dial", "register", "read", "json", "error", "unexpected",
     "payload"}

\* the failures of connect that happen after c.conn = conn
AfterDial == ConnectFailures \ {"url", "dial"}

\* Run is called: attempt := 0, delay := reconnectDelay
RunStart ==
    /\ client.pc = "new"
    /\ client' = [client EXCEPT !.pc = "top", !.attempt = 0,
                                !.delay = reconnectDelay]
    /\ UNCHANGED <<serverVars, tasks, sent, probe>>

\* the caller cancels the context
CtxCancel ==
    /\ client.pc \notin {"new", "returned"}
    /\ ~client.ctx
    /\ client' = [client EXCEPT !.ctx = TRUE]
    /\ UNCHANGED <<serverVars, tasks, sent, probe>>

\* the select at the top of Run's loop: case <-ctx.Done()
RunCtxDone ==
    /\ client.pc = "top"
    /\ client.ctx
    /\ client' = [client EXCEPT !.pc = "returned"]
    /\ UNCHANGED <<serverVars, tasks, sent, probe>>

\* the select at the top of Run's loop: default, then c.connect(ctx)
RunConnect ==
    /\ client.pc = "top"
    /\ ~client.ctx
    /\ client' = [client EXCEPT !.pc = "connect"]
    /\ UNCHANGED <<serverVars, tasks, sent, probe>>

\* connect: dialer.DialContext succeeded and c.conn = conn; connect goes
\* on to write the register envelope and to read the reply
ConnectDial ==
    /\ client.pc = "connect"
    /\ ~client.dialed
    /\ client.conn < MaxSessions
    /\ client' = [client EXCEPT !.conn = @ + 1, !.dialed = TRUE]
    /\ UNCHANGED <<serverVars, tasks, sent, probe>>

\* connect returns an error, before the dial (url, dial) or after
\* c.conn = conn, where it closes the connection first: attempt++ and Run
\* waits in the second select
ConnectFail(why) ==
    /\ client.pc = "connect"
    /\ client.fails < MaxAttempts
    /\ why \in AfterDial <=> client.dialed
    /\ client' = [client EXCEPT
                      !.pc = "backoff",
                      !.attempt = @ + 1,
                      !.fails = @ + 1,
                      !.dialed = FALSE]
    /\ UNCHANGED <<serverVars, tasks, sent, probe>>

\* A plausible slip: the delay doubles without the cap.
BackoffUncapped ==
    /\ client.pc = "backoff"
    /\ client' = [client EXCEPT !.pc = "top", !.delay = @ * 2]
    /\ UNCHANGED <<serverVars, tasks, sent, probe>>

\* case <-time.After(delay): delay = min(delay*2, maxReconnectDelay)
BackoffElapsed ==
    /\ client.pc = "backoff"
    /\ client' = [client EXCEPT
                      !.pc = "top",
                      !.delay = Min(@ * 2, maxReconnectDelay)]
    /\ UNCHANGED <<serverVars, tasks, sent, probe>>

\* case <-ctx.Done() while waiting: return ctx.Err()
BackoffCtxDone ==
    /\ client.pc = "backoff"
    /\ client.ctx
    /\ client' = [client EXCEPT !.pc = "returned"]
    /\ UNCHANGED <<serverVars, tasks, sent, probe>>

\* connect returns nil: the registered envelope was read on the
\* connection dialled; attempt = 0, delay = reconnectDelay, runLoop starts
ConnectOk ==
    /\ client.pc = "connect"
    /\ client.dialed
    /\ client' = [client EXCEPT
                      !.pc = "loop",
                      !.attempt = 0,
                      !.fails = 0,
                      !.delay = reconnectDelay,
                      !.dialed = FALSE,
                      !.open = @ \cup {client.conn}]
    /\ UNCHANGED <<serverVars, tasks, sent, probe>>

\* runLoop, the select at the top: case <-ctx.Done(): c.conn.Close() and
\* the error makes Run return
LoopCtxDone ==
    /\ client.pc = "loop"
    /\ client.ctx
    /\ client' = [client EXCEPT !.pc = "returned",
                                !.open = @ \ {client.conn}]
    /\ UNCHANGED <<serverVars, tasks, sent, probe>>

\* runLoop, the select at the top: default, then c.conn.ReadMessage()
LoopRead ==
    /\ client.pc = "loop"
    /\ ~client.ctx
    /\ client' = [client EXCEPT !.pc = "read"]
    /\ UNCHANGED <<serverVars, tasks, sent, probe>>

\* A plausible slip: an error of runLoop ends Run whatever the context says.
LoopReadErrorReturns ==
    /\ client.pc = "read"
    /\ client' = [client EXCEPT !.pc = "returned",
                                !.open = @ \ {client.conn}]
    /\ UNCHANGED <<serverVars, tasks, sent, probe>>

\* ReadMessage fails (the server or the network closed the connection):
\* runLoop returns the error; Run returns when the context is cancelled
\* and sleeps reconnectDelay otherwise
LoopReadError ==
    /\ client.pc = "read"
    /\ client' = [client EXCEPT
                      !.pc = IF client.ctx THEN "returned" ELSE "sleep",
                      !.open = @ \ {client.conn}]
    /\ UNCHANGED <<serverVars, tasks, sent, probe>>

\* time.Sleep(reconnectDelay) is over
SleepElapsed ==
    /\ client.pc = "sleep"
    /\ client' = [client EXCEPT !.pc = "top"]
    /\ UNCHANGED <<serverVars, tasks, sent, probe>>

\* a request envelope is read: go c.handleRequest(ctx, &req).  `k` is a
\* note for the history: the connection the envelope was read from, or
\* NoId where no claim needs it.  The goroutine itself keeps no such value.
LoopRequestNoting(id, k) ==
    /\ client.pc = "read"
    /\ client.conn \in client.open
    /\ tasks[id].pc = "none"
    /\ tasks' = [tasks EXCEPT ![id].pc = "forward",
                              ![id].req = HookRequest(id),
                              ![id].on = k]
    /\ client' = [client EXCEPT !.pc = "loop"]
    /\ UNCHANGED <<serverVars, sent, probe>>

LoopRequest(id) == LoopRequestNoting(id, NoId)

\* bytes json.Unmarshal rejects, a request whose payload does not parse, or
\* an envelope of another type: continue
LoopSkip ==
    /\ client.pc = "read"
    /\ client.conn \in client.open
    /\ client' = [client EXCEPT !.pc = "loop"]
    /\ UNCHANGED <<serverVars, tasks, sent, probe>>

Pongs == Len(SelectSeq(sent, LAMBDA w : w.env = PongEnvelope))

\* a ping envelope is read: the read loop writes the pong itself
LoopPing ==
    /\ client.pc = "read"
    /\ client.conn \in client.open
    /\ Pongs < MaxPings
    /\ sent' = Append(sent, [conn |-> client.conn, by |-> NoId,
                             env |-> PongEnvelope])
    /\ client' = [client EXCEPT !.pc = "loop"]
    /\ UNCHANGED <<serverVars, tasks, probe>>

\* ------------------------------------------------------ Client.handleRequest
\* the answers of the local target the client specifications draw from
TargetAnswers ==
    {Unreachable, Answer(502, <<>>),
     Answer(200, <<<<Hdr.ContentType, "json">>, <<Hdr.KeepAlive, "5">>>>)}

\* c.forwarder.Forward(ctx, req) returns; on an error the response is
\* synthesized.  With the context cancelled the outbound call fails.
TaskForward(id, answer) ==
    /\ tasks[id].pc = "forward"
    /\ client.ctx => ~answer.ok
    /\ \E fw \in ForwarderForward(OneTarget, tasks[id].req, answer) :
           tasks' = [tasks EXCEPT
                        ![id].pc = "write",
                        ![id].err = fw.err,
                        ![id].answer = answer,
                        ![id].resp = IF fw.err THEN ErrorResponse(tasks[id].req)
                                     ELSE fw.resp]
    /\ UNCHANGED <<serverVars, client, sent, probe>>

\* c.conn.WriteMessage(websocket.TextMessage, data): the envelope goes to
\* whatever c.conn names now; the result is not looked at
TaskWrite(id) ==
    /\ tasks[id].pc = "write"
    /\ sent' = Append(sent, [conn |-> client.conn, by |-> id,
                             env |-> ResponseEnvelope(tasks[id].resp)])
    /\ tasks' = [tasks EXCEPT ![id].pc = "done"]
    /\ UNCHANGED <<serverVars, client, probe>>

\* Run on its own: the requests it starts tasks for play no part in it
NextRun ==
    \/ RunStart
    \/ CtxCancel
    \/ RunCtxDone
    \/ RunConnect
    \/ ConnectDial
    \/ \E why \in ConnectFailures : ConnectFail(why)
    \/ BackoffElapsed
    \/ BackoffCtxDone
    \/ ConnectOk
    \/ LoopCtxDone
    \/ LoopRead
    \/ LoopReadError
    \/ SleepElapsed
    \/ LoopSkip
    \/ LoopPing

InitClient == InitWith(NoToken) /\ probe = NoProbe

SpecRun == InitClient /\ [][NextRun]_vars

\* Run's goroutine is scheduled when it can take a step, and the timers it
\* waits for (time.After, time.Sleep) fire
SpecRunLive ==
    /\ SpecRun
    /\ WF_vars(RunStart)
    /\ WF_vars(RunCtxDone)
    /\ WF_vars(RunConnect)
    /\ WF_vars(BackoffElapsed)
    /\ WF_vars(SleepElapsed)
    /\ WF_vars(LoopCtxDone)
    /\ WF_vars(LoopRead)

\* c.conn.WriteMessage taken apart: the call begins, on the connection
\* c.conn names at that moment (the receiver is evaluated then) ...
TaskWriteBegin(id) ==
    /\ tasks[id].pc = "write"
    /\ tasks' = [tasks EXCEPT ![id].pc = "writing", ![id].wr = client.conn]
    /\ UNCHANGED <<serverVars, client, sent, probe>>

\* ... and returns, the envelope handed to the connection the call began
\* on, whatever c.conn names by now
TaskWriteEnd(id) ==
    /\ tasks[id].pc = "writing"
    /\ sent' = Append(sent, [conn |-> tasks[id].wr, by |-> id,
                             env |-> ResponseEnvelope(tasks[id].resp)])
    /\ tasks' = [tasks EXCEPT ![id].pc = "done"]
    /\ UNCHANGED <<serverVars, client, probe>>

\* a ping envelope is read: the read loop calls c.conn.WriteMessage ...
LoopPingBegin ==
    /\ client.pc = "read"
    /\ client.conn \in client.open
    /\ Pongs < MaxPings
    /\ client' = [client EXCEPT !.pc = "pong"]
    /\ UNCHANGED <<serverVars, tasks, sent, probe>>

\* ... which returns, and the loop goes round; c.conn is assigned by this
\* goroutine alone (connect), so it names the connection the call began on
LoopPingEnd ==
    /\ client.pc = "pong"
    /\ sent' = Append(sent, [conn |-> client.conn, by |-> NoId,
                             env |-> PongEnvelope])
    /\ client' = [client EXCEPT !.pc = "loop"]
    /\ UNCHANGED <<serverVars, tasks, probe>>

\* the tasks of one connection, each write with its beginning and its end
NextWrites ==
    \/ RunStart
    \/ CtxCancel
    \/ RunCtxDone
    \/ RunConnect
    \/ ConnectDial
    \/ ConnectOk
    \/ LoopCtxDone
    \/ LoopRead
    \/ \E id \in 1..MaxReqIds : LoopRequest(id)
    \/ LoopPingBegin
    \/ LoopPingEnd
    \/ \E id \in 1..MaxReqIds, answer \in TargetAnswers : TaskForward(id, answer)
    \/ \E id \in 1..MaxReqIds : TaskWriteBegin(id)
    \/ \E id \in 1..MaxReqIds : TaskWriteEnd(id)

SpecWrites == InitClient /\ [][NextWrites]_vars

\* the tasks of a client that loses its connection and reconnects, each
\* task noted with the connection its request came from
NextReconnect ==
    \/ RunStart
    \/ CtxCancel
    \/ RunCtxDone
    \/ RunConnect
    \/ ConnectDial
    \/ ConnectOk
    \/ LoopCtxDone
    \/ LoopRead
    \/ LoopReadError
    \/ SleepElapsed
    \/ \E id \in 1..MaxReqIds : LoopRequestNoting(id, client.conn)
    \/ \E id \in 1..MaxReqIds, answer \in TargetAnswers : TaskForward(id, answer)
    \/ \E id \in 1..MaxReqIds : TaskWrite(id)

SpecReconnect == InitClient /\ [][NextReconnect]_vars

\* connect returns once the context is cancelled: DialContext gives up or
\* has connected, and the wait for the registered envelope has its own
\* deadline of 10 s
ConnectReturns ==
    /\ client.ctx
    /\ ConnectOk \/ \E why \in ConnectFailures : ConnectFail(why)

\* ... and the selects of Run that wait for ctx.Done() take that case.
\* Nothing is assumed about what the server sends or whether the
\* connection breaks.
SpecCancelLive ==
    /\ SpecRunLive
    /\ WF_vars(BackoffCtxDone)
    /\ WF_vars(ConnectReturns)

\* the tasks of a client whose connects succeed
NextClient ==
    \/ RunStart
    \/ CtxCancel
    \/ RunCtxDone
    \/ RunConnect
    \/ ConnectDial
    \/ ConnectOk
    \/ LoopCtxDone
    \/ LoopRead
    \/ LoopReadError
    \/ SleepElapsed
    \/ \E id \in 1..MaxReqIds : LoopRequest(id)
    \/ LoopPing
    \/ \E id \in 1..MaxReqIds, answer \in TargetAnswers : TaskForward(id, answer)
    \/ \E id \in 1..MaxReqIds : TaskWrite(id)

SpecClient == InitClient /\ [][NextClient]_vars

\* ------------------------------------------- Forward applied to a message
\* the header names a sender may write: HTTP field names are
\* case-insensitive on the wire
WireNames ==
    {<<"c", "o", "n", "n", "e", "c", "t", "i", "o", "n">>,
     <<"k", "e", "e", "p", "-", "a", "l", "i", "v", "e">>,
     <<"p", "r", "o", "x", "y", "-", "a", "u", "t", "h", "e", "n", "t", "i", "c", "a", "t", "e">>,
     <<"p", "r", "o", "x", "y", "-", "a", "u", "t", "h", "o", "r", "i", "z", "a", "t", "i", "o", "n">>,
     <<"t", "e">>,
     <<"t", "r", "a", "i", "l", "e", "r", "s">>,
     <<"t", "r", "a", "n", "s", "f", "e", "r", "-", "e", "n", "c", "o", "d", "i", "n", "g">>,
     <<"u", "p", "g", "r", "a", "d", "e">>,
     <<"c", "o", "n", "t", "e", "n", "t", "-", "t", "y", "p", "e">>,
     <<"T", "E">>,
     <<"C", "o", "n", "n", "e", "c", "t", "i", "o", "n">>,
     <<"T", "r", "a", "i", "l", "e", "r">>,
     <<"X", "-", "H", "o", "o", "k">>}

RECURSIVE SeqsUpTo(_, _)
SeqsUpTo(S, n) ==
    IF n = 0 THEN {<<>>}
    ELSE LET shorter == SeqsUpTo(S, n - 1)
         IN  shorter \cup {Append(q, x) : q \in shorter, x \in S}

\* the header fields of a message: up to MaxFields names with a value each
FieldLists == SeqsUpTo(WireNames \X {"a", "b"}, MaxFields)

\* a webhook with header fields `fields` arrives at the server, which sends
\* the client a request envelope with HeadersFromHTTP(r.Header); the target
\* answers the client's outbound call with the same fields
\* the header maps a request envelope can carry: JSON object keys are
\* distinct strings, in any spelling
EnvelopeHeaders ==
    UNION {[names -> {"a", "b"}] :
               names \in {S \in SUBSET WireNames : Cardinality(S) <= MaxFields}}

\* ... or a request envelope arrives whose header map is any JSON object
InitForward ==
    /\ InitWith(NoToken)
    /\ probe \in
           {[fn |-> "Forward", fields |-> f, applied |-> FALSE,
             header |-> EmptyMap, resp |-> NoResp] : f \in FieldLists}
           \cup {[fn |-> "CopyHeaders", headers |-> h, applied |-> FALSE,
                  header |-> EmptyMap] : h \in EnvelopeHeaders}

ApplyForward ==
    /\ probe.fn = "Forward"
    /\ ~probe.applied
    /\ LET req == [HookRequest(1) EXCEPT
                      !.headers = HeadersFromHTTP(ReadHeader(probe.fields))]
       IN  \E fw \in ForwarderForward(OneTarget, req,
                                      Answer(200, probe.fields)) :
               probe' = [probe EXCEPT !.applied = TRUE,
                                      !.header = fw.header,
                                      !.resp = fw.resp]
    /\ UNCHANGED <<serverVars, clientVars>>

\* the copy loop of Forward on the header map of the envelope
ApplyCopyHeaders ==
    /\ probe.fn = "CopyHeaders"
    /\ ~probe.applied
    /\ \E hd \in CopyHeaders(probe.headers) :
           probe' = [probe EXCEPT !.applied = TRUE, !.header = hd]
    /\ UNCHANGED <<serverVars, clientVars>>

NextForward == ApplyForward \/ ApplyCopyHeaders

SpecForward == InitForward /\ [][NextForward]_vars

\* -------------------------------------------------- routes and their paths
RoutePaths ==
    {<<>>, <<"/">>, <<"/", "a">>, <<"/", "a", "/", "b">>, <<"/", "b">>}
RouteTargets == {"A", "B"}
Routes == [Path : RoutePaths, Target : RouteTargets]
RequestPaths ==
    {<<>>, <<"/">>, <<"/", "a">>, <<"/", "a", "/", "b">>, <<"/", "a", "b">>,
     <<"/", "c">>}

\* a client configured with `routes` and the default target of OneTarget
\* is to forward a request with path `path`
InitRoute ==
    /\ InitWith(NoToken)
    /\ probe \in {[fn |-> "resolveTarget", routes |-> r, path |-> q,
                   applied |-> FALSE, target |-> ""] :
                      r \in SeqsUpTo(Routes, MaxRoutes), q \in RequestPaths}

ApplyRoute ==
    /\ probe.fn = "resolveTarget"
    /\ ~probe.applied
    /\ probe' = [probe EXCEPT
                    !.applied = TRUE,
                    !.target = resolveTarget(
                                   [OneTarget EXCEPT !.routes = probe.routes],
                                   probe.path)]
    /\ UNCHANGED <<serverVars, clientVars>>

SpecRoute == InitRoute /\ [][ApplyRoute]_vars

\* ------------------------------------------------------------ the locks
\* The three locks of the server: TunnelRegistry.mu, RequestStore.mu and
\* Tunnel.pendingMu.  A method is the sequence of its lock operations and
\* of the channel and socket operations between them.
Lk(mu) == [op |-> "Lock", mu |-> mu]
Un(mu) == [op |-> "Unlock", mu |-> mu]
RLk(mu) == [op |-> "RLock", mu |-> mu]
RUn(mu) == [op |-> "RUnlock", mu |-> mu]
Ch(what) == [op |-> what, mu |-> ""]

RegisterSteps == <<Lk("registry"), Un("registry")>>

\* tunnel.Close() is close(t.done) inside closeOnce
UnregisterSteps == <<Lk("registry"), Ch("close"), Un("registry")>>

GetSteps == <<RLk("registry"), RUn("registry")>>

\* per tunnel: tunnel.Close(), tunnel.conn.Close()
CloseAllSteps ==
    <<Lk("registry"), Ch("close"), Ch("connclose"), Un("registry")>>

\* a ForwardRequest that keeps pendingMu until it returns
ForwardRequestStepsDeferred ==
    <<Lk("pending"), Ch("send"), Ch("recv"), Un("pending")>>

\* the registration of the response channel, the two selects, the
\* deferred removal
ForwardRequestSteps ==
    <<Lk("pending"), Un("pending"), Ch("send"), Ch("recv"),
      Lk("pending"), Un("pending")>>

\* the lookup under the lock, the non-blocking send after it
HandleResponseSteps == <<Lk("pending"), Un("pending"), Ch("trysend")>>

\* Store, StoreResponse and Clear take s.mu; Get, GetResponse and List
\* take it shared
StoreWriteSteps == <<Lk("store"), Un("store")>>
StoreReadSteps == <<RLk("store"), RUn("store")>>

\* what the goroutines of the server run: a webhook, a replay, a listing,
\* a tunnel session (Register, one response handled and stored, the
\* reader's deferred Unregister and conn.Close), the shutdown sweep
TaskScripts ==
    { GetSteps \o StoreWriteSteps \o ForwardRequestSteps,
      GetSteps \o StoreReadSteps \o StoreWriteSteps \o ForwardRequestSteps,
      StoreReadSteps,
      RegisterSteps \o HandleResponseSteps \o StoreWriteSteps
          \o UnregisterSteps \o <<Ch("connclose")>>,
      CloseAllSteps }

LockTasks == 1..3

InitLocks ==
    /\ InitWith(NoToken)
    /\ probe \in {[fn |-> "locks", script |-> sc,
                   at |-> [k \in LockTasks |-> 1],
                   held |-> [k \in LockTasks |-> {}]] :
                      sc \in [LockTasks -> TaskScripts]}

\* the operation task k is about to execute
NextOp(k) ==
    IF probe.at[k] <= Len(probe.script[k])
    THEN probe.script[k][probe.at[k]]
    ELSE Ch("return")

\* sync.Mutex and sync.RWMutex: Lock waits until nobody holds the lock,
\* RLock until nobody holds it exclusively
LockFree(st) ==
    \A j \in LockTasks : \A h \in probe.held[j] :
        h.mu = st.mu => (st.op = "RLock" /\ ~h.w)

\* task k executes its next operation.  The selects of ForwardRequest
\* wait for the writer, the reader or a timer; when they are released is
\* left open.
LockStep(k) ==
    /\ probe.fn = "locks"
    /\ probe.at[k] <= Len(probe.script[k])
    /\ LET st == NextOp(k)
       IN  /\ st.op \in {"Lock", "RLock"} => LockFree(st)
           /\ probe' =
                 [probe EXCEPT
                    !.at[k] = @ + 1,
                    !.held[k] =
                        IF st.op = "Lock" THEN @ \cup {[mu |-> st.mu, w |-> TRUE]}
                        ELSE IF st.op = "RLock"
                             THEN @ \cup {[mu |-> st.mu, w |-> FALSE]}
                        ELSE IF st.op \in {"Unlock", "RUnlock"}
                             THEN {h \in @ : h.mu # st.mu}
                        ELSE @]
    /\ UNCHANGED <<serverVars, clientVars>>

NextLocks == \E k \in LockTasks : LockStep(k)

SpecLocks == InitLocks /\ [][NextLocks]_vars

\* ------------------------------------------------------- the server's log
Hex ==
    <<"0", "1", "2", "3", "4", "5", "6", "7", "8", "9", "a", "b", "c", "d",
      "e", "f">>

\* uuid.New().String() of the registration that made tunnel t: 36
\* characters, hexadecimal digits in five groups
UuidOf(t) ==
    [i \in 1..36 |->
        IF i \in {9, 14, 19, 24} THEN "-"
        ELSE IF i = 15 THEN "4"
        ELSE Hex[((t * i) % 16) + 1]]

\* Tunnel.ShortID
ShortID(id) == IF Len(id) >= 8 THEN SubSeq(id, 1, 8) ELSE id

\* the id uuid.New().String()[:8] gives a request
RequestIdText == <<"9", "f", "3", "c", "0", "a", "7", "e">>

\* a log line is the sequence of its parts: a piece of the format or an
\* error's text as one string (lit), a value put in for a verb character
\* by character (val)
Lit(str) == [lit |-> str, val |-> <<>>]
Val(chars) == [lit |-> "", val |-> chars]

RECURSIVE Flatten(_)
Flatten(parts) ==
    IF parts = <<>> THEN <<>>
    ELSE (IF Head(parts).lit # "" THEN <<Head(parts).lit>>
          ELSE Head(parts).val) \o Flatten(Tail(parts))

\* what the peers of the server put into the values it logs: the path and
\* the method of a webhook, the Origin header of an upgrade request, the
\* type of an envelope, the reason of a close frame
HookTail == <<"/", "h", "o", "o", "k">>
WebhookPaths == {HookTail, HookTail \o <<"?", "t", "=">> \o UuidOf(1)}
WebhookMethods == {<<"P", "O", "S", "T">>, UuidOf(1)}
Origins == {<<"h", "t", "t", "p", ":", "/", "/", "x">>,
            <<"h", "t", "t", "p", ":", "/", "/">> \o UuidOf(1)}
EnvelopeTypes == {<<"b", "o", "g", "u", "s">>, UuidOf(1)}
ForwardErrors == {"tunnel closed", "context deadline exceeded",
                  "context canceled"}

\* the errors conn.ReadMessage returns: a *websocket.CloseError with the
\* code and the reason of the peer's close frame, the CloseError with code
\* 1006 the library makes of a connection that ended without one, or
\* (code 0) an error that is no CloseError, such as an expired deadline
ReadErrors ==
    {[code |-> c, text |-> r] : c \in {1000, 1001}, r \in {<<>>, UuidOf(1)}}
        \cup {[code |-> 1006, text |-> <<"unexpected EOF">>],
              [code |-> 0, text |-> <<"i/o timeout">>]}

\* CloseError.Error(), and the text of the other errors
ErrorParts(e) ==
    IF e.code = 0 THEN <<Val(e.text)>>
    ELSE <<Lit("websocket: close "),
           Lit(CASE e.code = 1000 -> "1000 (normal)"
                 [] e.code = 1001 -> "1001 (going away)"
                 [] e.code = 1006 -> "1006 (abnormal closure)")>>
         \o (IF e.text = <<>> THEN <<>> ELSE <<Lit(": "), Val(e.text)>>)

\* websocket.IsUnexpectedCloseError(err, CloseGoingAway,
\* CloseAbnormalClosure)
IsUnexpectedCloseError(e) == e.code # 0 /\ e.code \notin {1001, 1006}

\* tunnel t; a webhook to it with method `method` and path `path` whose
\* forwarding fails with `err`; an upgrade request with Origin `origin`; on
\* its socket an envelope of type `type` and a read that fails with `read`
InitLog ==
    /\ InitWith(NoToken)
    /\ probe \in {[fn |-> "log", tunnel |-> UuidOf(t), path |-> q,
                   method |-> m, origin |-> o, type |-> ty, read |-> rd,
                   err |-> e, line |-> <<>>] :
                      t \in TunnelIds, q \in WebhookPaths,
                      m \in WebhookMethods, o \in Origins,
                      ty \in EnvelopeTypes, rd \in ReadErrors,
                      e \in ForwardErrors}

\* the log statements of the server once it listens
LogStatements ==
    {"rejected origin", "shutting down", "upgrade failed", "read register",
     "expected register", "parse register", "unauthorized",
     "register failed", "registered", "disconnected", "closing",
     "read error", "parse message", "parse response", "unknown type",
     "forward error", "replay error"}

\* whether the statement is reached with the values at hand: ReadPump
\* logs a read error only when IsUnexpectedCloseError, and Register
\* returns no error
Logged(stmt) ==
    /\ stmt = "read error" => IsUnexpectedCloseError(probe.read)
    /\ stmt # "register failed"

\* the parts of the line each statement prints
LineOf(stmt) ==
    LET short == Val(ShortID(probe.tunnel))
    IN  CASE stmt = "rejected origin" ->     \* checkOrigin
                 <<Lit("rejected WebSocket connection from origin: "),
                   Val(probe.origin)>>
          [] stmt = "shutting down" ->       \* Run
                 <<Lit("shutting down server...")>>
          [] stmt = "upgrade failed" ->      \* handleWebSocket
                 <<Lit("websocket upgrade failed: "),
                   Lit("websocket: the client is not using the websocket protocol: 'upgrade' token not found in 'Connection' header")>>
          [] stmt = "read register" ->       \* handleWebSocket
                 <<Lit("failed to read register message: ")>>
                     \o ErrorParts(probe.read)
          [] stmt = "expected register" ->   \* handleWebSocket
                 <<Lit("expected register message, got: "), Val(probe.type)>>
          [] stmt = "parse register" ->      \* handleWebSocket
                 <<Lit("failed to parse register payload: "),
                   Lit("json: cannot unmarshal number into Go struct field RegisterPayload.token of type string")>>
          [] stmt = "unauthorized" ->        \* handleWebSocket
                 <<Lit("unauthorized connection attempt")>>
          [] stmt = "register failed" ->     \* handleWebSocket
                 <<Lit("failed to register tunnel: "), Lit("err")>>
          [] stmt = "registered" ->          \* handleWebSocket
                 <<Lit("tunnel registered: "), short>>
          [] stmt = "disconnected" ->        \* handleWebSocket
                 <<Lit("tunnel disconnected: "), short>>
          [] stmt = "closing" ->             \* CloseAll
                 <<Lit("closing tunnel: "), short>>
          [] stmt = "read error" ->          \* ReadPump
                 <<Lit("tunnel "), short, Lit(" read error: ")>>
                     \o ErrorParts(probe.read)
          [] stmt = "parse message" ->       \* ReadPump
                 <<Lit("tunnel "), short, Lit(": failed to parse message: "),
                   Lit("unexpected end of JSON input")>>
          [] stmt = "parse response" ->      \* ReadPump
                 <<Lit("tunnel "), short, Lit(": failed to parse response: "),
                   Lit("unexpected end of JSON input")>>
          [] stmt = "unknown type" ->        \* ReadPump
                 <<Lit("tunnel "), short, Lit(": unknown message type: "),
                   Val(probe.type)>>
          [] stmt = "forward error" ->       \* handleWebhook
                 <<Lit("["), Val(RequestIdText),
                   Lit("] forward error (tunnel="), short, Lit(", method="),
                   Val(probe.method), Lit(", path="), Val(probe.path),
                   Lit("): "), Lit(probe.err)>>
          [] stmt = "replay error" ->        \* handleReplay
                 <<Lit("["), Val(RequestIdText),
                   Lit("] replay error (tunnel="), short, Lit(", original="),
                   Val(RequestIdText), Lit("): "), Lit(probe.err)>>

\* log.Printf of one of the statements
Printf(stmt) ==
    /\ probe.fn = "log"
    /\ Logged(stmt)
    /\ probe' = [probe EXCEPT !.line = LineOf(stmt)]
    /\ UNCHANGED <<serverVars, clientVars>>

NextLog == \E stmt \in LogStatements : Printf(stmt)

SpecLog == InitLog /\ [][NextLog]_vars

\* ------------------------------------------------------ claims on the store
Max(a, b) == IF a >= b THEN a ELSE b

\* the number of entries Store has evicted from tunnel t's list
Evicted(t) == Max(0, Len(storedLog[t]) - store.maxRequests)

RetainedFifo ==
    \A t \in TunnelIds :
        LET log == storedLog[t]
            k   == Evicted(t)
        IN  /\ store.byTunnel[t] = SubSeq(log, k + 1, Len(log))
            /\ Len(store.byTunnel[t]) <= store.maxRequests
            /\ \A i \in (k + 1)..Len(log) :
                   /\ log[i] \in DOMAIN store.requests
                   /\ store.requests[log[i]].id = log[i]
                   /\ store.requests[log[i]].tunnel_id = t
            /\ \A i \in 1..k : log[i] \notin DOMAIN store.requests

EvictionDropsPair ==
    \A t \in TunnelIds :
        (Len(storedLog'[t]) > Len(storedLog[t]) /\ Evicted(t)' > Evicted(t))
            => LET old == storedLog'[t][Evicted(t)']
               IN  /\ old \notin DOMAIN store'.requests
                   /\ old \notin DOMAIN store'.responses
                   /\ old = Head(store.byTunnel[t])

\* C4: after N+k Store calls for one tunnel (N = max_requests) exactly the k
\* oldest requests are gone, the N newest are retrievable in insertion
\* order, the retained list never exceeds N, other tunnels are untouched,
\* and the Store call that evicts an id removes its response with it.
C4_FifoEviction == [](RetainedFifo) /\ [][EvictionDropsPair]_vars

\* C4 witness: two requests of one tunnel have been evicted, one of them
\* after a response was stored for a retained request.
C4_Witness ==
    \E t \in TunnelIds :
        /\ Len(storedLog[t]) = MaxRequests + 2
        /\ \E id \in DOMAIN store.responses : id \in DOMAIN store.requests

\* C5: every request id that has a stored response also has a stored
\* request (no response survives without its request).
C5_ResponseHasRequest ==
    DOMAIN store.responses \subseteq DOMAIN store.requests

\* ----------------------------------------------------- claims on a tunnel
\* the last reply is that of a call whose ForwardRequest returned a response
Returned == last.err = "" /\ last.req # NoId

\* C1: every ForwardRequest call that returns a response returns one whose
\* request_id is the id of the request it forwarded, whatever the order in
\* which the reader receives the responses of concurrent calls; the
\* response buffered for a waiting call carries that call's id.
C1_Correlation ==
    /\ Returned => last.ret.request_id = last.req
    /\ \A h \in Handlers :
           (http[h].pc = "defer" /\ http[h].err = "") =>
               http[h].ret.request_id = http[h].req
    /\ \A t \in TunnelIds : \A id \in DOMAIN pending[t] :
           pending[t][id] # <<>> => pending[t][id][1].request_id = id

\* C1 witness: two calls are in flight on the tunnel and the one issued
\* later has returned its response while the earlier one still waits.
C1_Witness ==
    /\ Returned
    /\ last.req = 2
    /\ \E h \in Handlers : http[h].pc = "wait" /\ http[h].req = 1

\* C2 as claimed: the response delivered to the caller is the first
\* response envelope with that request_id the reader received.
C2_FirstReceived ==
    Returned => last.ret = arrivals[last.tunnel].any[last.req]

\* C2 as amended: the response delivered to the caller (and the one
\* buffered for a waiting caller) is the first response envelope with that
\* request_id the reader received while the call's pending entry was
\* registered; once the call has returned the id has no pending entry, so
\* every later envelope with that id is dropped (one that comes between the
\* caller's receive and its deferred delete goes into the emptied buffer
\* and is deleted with it, unread), and the reader can always take its next
\* envelope.
C2_FirstWhilePending ==
    /\ Returned =>
           /\ last.req \in DOMAIN arrivals[last.tunnel].pend
           /\ last.ret = arrivals[last.tunnel].pend[last.req]
           /\ last.req \notin DOMAIN pending[last.tunnel]
    /\ \A h \in Handlers :
           (http[h].pc = "defer" /\ http[h].err = "") =>
               /\ http[h].req \in DOMAIN arrivals[http[h].tunnel].pend
               /\ http[h].ret = arrivals[http[h].tunnel].pend[http[h].req]
    /\ \A h \in Handlers :
           (/\ http[h].pc \in {"enqueue", "wait"}
            /\ pending[http[h].tunnel][http[h].req] # <<>>) =>
               /\ http[h].req \in DOMAIN arrivals[http[h].tunnel].pend
               /\ pending[http[h].tunnel][http[h].req] =
                      <<arrivals[http[h].tunnel].pend[http[h].req]>>
    /\ \A id \in ReqIds, status \in Statuses :
           reader[1].pc = "run" => ENABLED ReaderResponseNoted(1, id, status)

\* C2 witness: the caller got the first response received for its id, and a
\* duplicate with another status code was received (and stored) later.
C2_Witness ==
    /\ Returned
    /\ last.ret = arrivals[last.tunnel].any[last.req]
    /\ last.req \in DOMAIN store.responses
    /\ store.responses[last.req].status_code # last.ret.status_code

\* the ids of the ForwardRequest calls on tunnel t that have registered
\* their slot and not returned (a call returns when its deferred function
\* has run)
InFlight(t) ==
    { http[h].req : h \in { g \in Handlers :
                              /\ http[g].pc \in {"enqueue", "wait", "defer"}
                              /\ http[g].tunnel = t } }

\* C3: the keys of a tunnel's pending table are exactly the ids of the
\* ForwardRequest calls that have started and not yet returned; after a
\* return by any path the id has no entry and a response arriving later
\* creates none.
C3_PendingIsInFlight ==
    /\ \A t \in TunnelIds : DOMAIN pending[t] = InFlight(t)
    /\ last.req # NoId => last.req \notin DOMAIN pending[last.tunnel]

\* C3 witness: a call whose request went out to the client returned because
\* its context was done, and the reader has just handled a response for its
\* id that found no pending entry.
C3_Witness ==
    /\ last.err = "ctx"
    /\ \E i \in DOMAIN conn[tconn[1]].out :
           conn[tconn[1]].out[i] = RequestEnvelope(last.req)
    /\ reader[1].pc = "store"
    /\ reader[1].resp.request_id = last.req
    /\ last.req \notin DOMAIN arrivals[1].pend
    /\ last.req \notin DOMAIN pending[1]

\* ------------------------------------------------- claims on the handlers
\* handler h finds the tunnel in the registry in this step
Admits(h, kind) ==
    /\ http[h].pc = "idle"
    /\ http'[h].pc \in {"body", "lookup"}
    /\ http'[h].kind = kind

\* handler h stores its request in this step, and goes on to forward it
Starts(h, kind) ==
    /\ http[h].pc \in {"body", "replay"}
    /\ http'[h].pc = "fwd"
    /\ http'[h].kind = kind

\* a handler answers in this step without having made a request
Answers(kind) ==
    /\ last' # last
    /\ last'.kind = kind
    /\ last'.req = NoId

Untouched ==
    /\ store' = store
    /\ registry' = registry
    /\ done' = done
    /\ sendq' = sendq
    /\ pending' = pending
    /\ conn' = conn

ReplayBound ==
    /\ \A h \in Handlers :
           Admits(h, "replay") => http'[h].tunnel \in registry
    /\ \A h \in Handlers :
           (http[h].pc = "lookup" /\ http'[h].pc = "replay") =>
               /\ http[h].orig \in DOMAIN store.requests
               /\ store.requests[http[h].orig].tunnel_id = http[h].tunnel
    /\ \A h \in Handlers :
           Starts(h, "replay") => http[h].pc = "replay"
    /\ ( /\ Answers("replay")
         /\ last'.orig \in DOMAIN store.requests
         /\ store.requests[last'.orig].tunnel_id # last'.tunnel )
       => (last'.status = 404 /\ Untouched)

\* C6: a replay of a stored request addressed to a tunnel other than the
\* one it was stored under returns 404 and changes neither the store nor
\* any outbound queue; a replay is forwarded only when the stored request's
\* tunnel_id is the tunnel id of the path.
C6_ReplayTunnelBinding == [][ReplayBound]_vars

\* C6 witness: request R is stored under A, tunnel B is registered, and the
\* replay of R addressed to B was answered 404.
C6_Witness ==
    /\ last.kind = "replay"
    /\ last.status = 404
    /\ last.tunnel \in registry
    /\ last.orig \in DOMAIN store.requests
    /\ store.requests[last.orig].tunnel_id # last.tunnel

\* handleWebSocket decides the handshake of connection c in this step
Decides(c) == conn[c].pc = "upgraded" /\ conn'[c].pc # "upgraded"

RegisterIgnoresRequested ==
    \A c \in Conns :
        (Decides(c) /\ conn'[c].pc = "registered") =>
            /\ conn'[c].tunnel = nextTunnel
            /\ nextTunnel \notin registry
            /\ registry' = registry \cup {nextTunnel}
            /\ tconn'[nextTunnel] = c

EchoesAssigned ==
    \A c \in Conns :
        \A i \in DOMAIN conn[c].out :
            conn[c].out[i].type = "registered" =>
                /\ i = 1
                /\ conn[c].out[i] = RegisteredEnvelope(conn[c].tunnel)
                /\ tconn[conn[c].tunnel] = c

\* C7: the id Register assigns is the server-generated one whatever id the
\* client requested: the registry changes the same way for every requested
\* id, and the id echoed in `registered` is the one the tunnel is
\* registered under.
C7_RequestedIdIgnored == [](EchoesAssigned) /\ [][RegisterIgnoresRequested]_vars

\* C7 witness: a client asked for the id of another registered tunnel and
\* is served under a different, server-generated id.
C7_Witness ==
    /\ hs.conn # NoId
    /\ conn[hs.conn].pc = "serving"
    /\ hs.env.tunnel_id # NoId
    /\ hs.env.tunnel_id # conn[hs.conn].tunnel
    /\ hs.env.tunnel_id \in registry

TokenOk(env) == token = NoToken \/ env.token = token

HandshakeGate ==
    \A c \in Conns :
        Decides(c) =>
            IF conn'[c].pc = "registered"
            THEN /\ hs'.conn = c
                 /\ hs'.env.kind = "register"
                 /\ TokenOk(hs'.env)
                 /\ conn'[c].out = <<>>
            ELSE /\ registry' = registry
                 /\ nextTunnel' = nextTunnel
                 /\ conn'[c].pc = "closed"
                 /\ ~conn'[c].open
                 /\ conn'[c].tunnel = NoId
                 /\ IF hs'.conn = c /\ hs'.env.kind = "register"
                    THEN /\ ~TokenOk(hs'.env)
                         /\ conn'[c].out = <<ErrorEnvelope("unauthorized")>>
                    ELSE conn'[c].out = <<>>

RegisteredOnlyIfRegistered ==
    \A c \in Conns :
        /\ (\E i \in DOMAIN conn[c].out : conn[c].out[i].type = "registered")
               => conn[c].tunnel # NoId
        /\ conn[c].tunnel # NoId => tconn[conn[c].tunnel] = c

\* C8: a tunnel is registered and `registered` is sent only when the first
\* envelope is a well-formed register whose token matches (or no token is
\* configured); a missing or wrong token gets one `error` envelope with
\* code unauthorized and a close, a malformed or non-register envelope a
\* close, and in both cases the registry is unchanged.
C8_HandshakeGate == [](RegisteredOnlyIfRegistered) /\ [][HandshakeGate]_vars

\* C8 witness: with a token configured and a tunnel registered, a register
\* envelope with a wrong token was answered with the error envelope and the
\* connection closed.
C8_Witness ==
    /\ token # NoToken
    /\ registry # {}
    /\ hs.conn # NoId
    /\ hs.env.kind = "register"
    /\ hs.env.token = Wrong
    /\ conn[hs.conn].pc = "closed"
    /\ conn[hs.conn].out = <<ErrorEnvelope("unauthorized")>>

ApiKinds == {"list", "replay"}

ApiGate ==
    /\ \A k \in ApiKinds :
           (token # NoToken /\ Answers(k)) =>
               /\ last'.status = 401 <=> last'.cred.auth # Bearer(token)
               /\ last'.status = 401 => Untouched
    /\ \A h \in Handlers :
           (token # NoToken /\ Admits(h, "replay")) =>
               http'[h].cred.auth = Bearer(token)

WebhookOpen ==
    /\ (last' # last /\ last'.kind = "webhook") => last'.status # 401
    /\ (Answers("webhook") /\ last'.status = 404) => last'.tunnel \notin registry

\* C9: with a token configured a request to an /api endpoint is answered
\* 401, and changes nothing, unless its Authorization header is exactly
\* "Bearer <token>" (a token in the query string does not count); webhook
\* ingress is never answered 401, with or without credentials.
C9_AuthSurface == [][ApiGate /\ WebhookOpen]_vars

\* C9 witness: with a token configured and a request in the store, an API
\* request that carried the right token in the query string only was
\* answered 401.
C9_Witness ==
    /\ token # NoToken
    /\ last.kind \in ApiKinds
    /\ last.status = 401
    /\ last.cred.auth = <<>>
    /\ last.cred.query = token
    /\ DOMAIN store.requests # {}

WebhookNeedsTunnel ==
    /\ \A h \in Handlers :
           Admits(h, "webhook") => http'[h].tunnel \in registry
    /\ (Answers("webhook") /\ http' = http) =>
           (last'.status = 404 /\ last'.tunnel \notin registry /\ Untouched)
    /\ (Answers("webhook") /\ last'.status = 404) =>
           (http' = http /\ Untouched)
    /\ \A t \in TunnelIds :
           store'.byTunnel[t] # store.byTunnel[t] =>
               \E h \in Handlers :
                   /\ http[h].pc \in {"body", "replay"}
                   /\ http[h].tunnel = t
                   /\ http'[h].pc = "fwd"
    /\ \A t \in TunnelIds :
           Len(sendq'[t]) > Len(sendq[t]) =>
               \E h \in Handlers :
                   /\ http[h].pc = "enqueue"
                   /\ http[h].tunnel = t
                   /\ http'[h].pc = "wait"

\* C10: a webhook addressed to a tunnel id that is not in the registry at
\* lookup time returns 404, stores no request and enqueues nothing: the 404
\* is the answer of the lookup step and of no other, and a request is
\* stored, and an envelope queued, only by a handler whose lookup found the
\* tunnel, whatever has become of the tunnel since.
C10_WebhookTunnelNotFound == [][WebhookNeedsTunnel]_vars

\* C10 witness: tunnel 1 took a webhook, left the registry while its reader
\* was still running (the shutdown sweep), and the next webhook addressed
\* to it was answered 404.
C10_Witness ==
    /\ last.kind = "webhook"
    /\ last.status = 404
    /\ last.tunnel = 1
    /\ done[1]
    /\ reader[1].pc # "exited"
    /\ Len(storedLog[1]) > 0

\* ------------------------------------------------- claims on the listing
ListNeedsTunnel ==
    (Answers("list") /\ last'.tunnel \notin registry)
        => last'.status \in {401, 404}

\* C11: the request-listing endpoint answers 404 when the tunnel id of the
\* path is not in the registry (401 when the caller is not authorised).
C11_ListTunnelNotFound == [][ListNeedsTunnel]_vars

\* the request id is part of the body: the text is "... (id=", the id, ")"
NamesRequest(body, requestID) == Len(body) = 3 /\ body[2] = requestID

\* the summaries List gives for request id of tunnel t in store s
SummaryIn(s, t, id) ==
    SelectSeq(List(s, t), LAMBDA x : x.id = id)

\* ForwardRequest returned an error to the webhook handler in this step
ForwardFails(errs) ==
    /\ last' # last
    /\ last'.kind = "webhook"
    /\ last'.err \in errs

\* request id of tunnel t is listed, with a status code only if a response
\* is stored for it
ListedIn(s, t, id) ==
    /\ id \in DOMAIN s.requests
    /\ Len(SummaryIn(s, t, id)) = 1
    /\ SummaryIn(s, t, id)[1].status_code =
           IF id \in DOMAIN s.responses
           THEN s.responses[id].status_code ELSE 0

\* fewer than maxRequests requests were stored for tunnel t after id
NotYetEvicted(t, id) ==
    \E i \in DOMAIN storedLog[t] : storedLog[t][i] = id /\ i > Evicted(t)

\* C12 as claimed: whenever ForwardRequest returns an error (deadline
\* elapsed, caller cancelled, tunnel closed) to the webhook handler the
\* caller gets 502 with a body naming the request id and the request remains
\* in the tunnel's history, without a status code unless a response is
\* stored for it.
C12_ForwardErrorKeepsRequest ==
    [][ForwardFails({"ctx", "closed"}) =>
           /\ last'.status = 502
           /\ NamesRequest(last'.body, last'.req)
           /\ ListedIn(store', last'.tunnel, last'.req)]_vars

ForwardErrorSurfaced ==
    ForwardFails({"ctx", "closed", "encode"}) =>
        /\ last'.status = 502
        /\ NamesRequest(last'.body, last'.req)
        /\ store' = store
        /\ IF NotYetEvicted(last'.tunnel, last'.req)
           THEN ListedIn(store', last'.tunnel, last'.req)
           ELSE /\ last'.req \notin DOMAIN store'.requests
                /\ SummaryIn(store', last'.tunnel, last'.req) = <<>>

StoredBeforeForwarding ==
    \A h \in Handlers :
        Starts(h, "webhook") =>
            /\ http'[h].req \notin DOMAIN store.requests
            /\ ListedIn(store', http'[h].tunnel, http'[h].req)

\* C12 as amended: the caller gets 502 with a body naming the request id;
\* the request was stored before forwarding and the failing return leaves
\* the store as it is, so the request remains in the tunnel's history,
\* without a status code unless a response is stored for it, unless
\* max_requests newer requests of that tunnel have evicted it meanwhile.
C12_ForwardErrorIs502 == [][ForwardErrorSurfaced /\ StoredBeforeForwarding]_vars

\* C12 witness: a webhook timed out, was answered 502 naming its id, and is
\* listed without a status code.
C12_Witness ==
    /\ last.kind = "webhook"
    /\ last.err = "ctx"
    /\ last.status = 502
    /\ NamesRequest(last.body, last.req)
    /\ ListedIn(store, last.tunnel, last.req)
    /\ SummaryIn(store, last.tunnel, last.req)[1].status_code = 0

\* the ids List returns for tunnel t
ListedIds(t) == [i \in DOMAIN List(store, t) |-> List(store, t)[i].id]

\* C13: List(tunnel) has one summary per retained request of the tunnel,
\* newest first: the i-th summary is that of the i-th most recently stored
\* request, with the status code of its stored response when there is one.
C13_ListNewestFirst ==
    \A t \in TunnelIds :
        LET log == storedLog[t]
            n   == Len(log)
            l   == List(store, t)
        IN  /\ Len(l) = n - Evicted(t)
            /\ \A i \in DOMAIN l :
                   /\ l[i].id = log[n + 1 - i]
                   /\ l[i].method = store.requests[l[i].id].method
                   /\ l[i].path = store.requests[l[i].id].path
                   /\ l[i].status_code =
                          IF l[i].id \in DOMAIN store.responses
                          THEN store.responses[l[i].id].status_code ELSE 0

\* C13 witness: MaxRequests + 2 requests were stored for one tunnel in id
\* order and its listing is the newest MaxRequests of them, newest first,
\* the newest with a status code and the oldest listed without one.
C13_Witness ==
    \E t \in TunnelIds :
        LET l == List(store, t)
        IN  /\ storedLog[t] = [i \in 1..(MaxRequests + 2) |-> i]
            /\ ListedIds(t) = [i \in 1..MaxRequests |-> MaxRequests + 3 - i]
            /\ l[1].status_code = 200
            /\ l[MaxRequests].status_code = 0

\* --------------------------------------------------- claims on the replay
\* the step in which a replay reads the original: it is stored under the
\* tunnel of the path, and what the handler holds is its method, path,
\* headers and body
ReplayReads ==
    \A h \in Handlers :
        (http[h].pc = "lookup" /\ http'[h].pc = "replay") =>
            LET orig == http[h].orig
            IN  /\ orig \in DOMAIN store.requests
                /\ store.requests[orig].tunnel_id = http[h].tunnel
                /\ http'[h].shape.method = store.requests[orig].method
                /\ http'[h].shape.path = store.requests[orig].path
                /\ http'[h].shape.headers = store.requests[orig].headers
                /\ http'[h].shape.body = store.requests[orig].body
                /\ store' = store

\* the step in which a replay stores its copy
ReplayStoresCopy ==
    \A h \in Handlers :
        Starts(h, "replay") =>
            LET new  == http'[h].req
                orig == http[h].orig
                t    == http[h].tunnel
            IN  /\ http[h].pc = "replay"
                /\ new # orig
                /\ new \notin DOMAIN store.requests
                /\ new \in DOMAIN store'.requests
                /\ store'.requests[new].id = new
                /\ store'.requests[new].tunnel_id = t
                /\ store'.requests[new].method = http[h].shape.method
                /\ store'.requests[new].path = http[h].shape.path
                /\ store'.requests[new].headers = http[h].shape.headers
                /\ store'.requests[new].body = http[h].shape.body
                /\ storedLog'[t] = Append(storedLog[t], new)
                /\ \A u \in TunnelIds \ {t} :
                       store'.byTunnel[u] = store.byTunnel[u]
                /\ store'.byTunnel[t] =
                       IF Len(store.byTunnel[t]) < store.maxRequests
                       THEN Append(store.byTunnel[t], new)
                       ELSE Append(Tail(store.byTunnel[t]), new)
                /\ DOMAIN store'.requests \subseteq DOMAIN store.requests \cup {new}
                /\ \A id \in DOMAIN store'.requests \ {new} :
                       store'.requests[id] = store.requests[id]

\* no step modifies a request that stays in the store, and what a replay
\* holds between its steps stays as it read it
StoredIsKept ==
    /\ \A id \in DOMAIN store.requests \cap DOMAIN store'.requests :
           store'.requests[id] = store.requests[id]
    /\ \A h \in Handlers :
           (http[h].pc = "replay" /\ http'[h].pc = "replay") =>
               http'[h].shape = http[h].shape

ForwardsStored ==
    \A h \in Handlers :
        (http[h].pc = "enqueue" /\ http'[h].pc = "wait") =>
            /\ sendq'[http[h].tunnel] =
                   Append(sendq[http[h].tunnel], RequestEnvelope(http[h].req))
            /\ http'[h].req = http[h].req

\* C14: a replay that passes the tunnel and ownership checks stores exactly
\* one new request under the same tunnel, with a fresh id and the method,
\* path, headers and body it read from the original, and forwards that
\* request; every other retained request, the original included, is
\* unmodified, and the only entry that may disappear is the oldest of that
\* tunnel when the list was full.
C14_ReplayStoresCopy ==
    [][ReplayReads /\ ReplayStoresCopy /\ StoredIsKept /\ ForwardsStored]_vars

\* C14 witness: a replay read its original, a webhook was stored and the
\* store, being full, dropped the original; the replay then stored its
\* copy under a new id with the original's content, dropping the webhook,
\* and its envelope is in the queue.
C14_Witness ==
    \E h, g \in TwoCallers :
        /\ http[h].kind = "replay" /\ http[h].pc = "wait"
        /\ http[g].kind = "webhook"
        /\ storedLog[1] = <<http[h].orig, http[g].req, http[h].req>>
        /\ DOMAIN store.requests = {http[h].req}
        /\ store.requests[http[h].req].headers = PostShape.headers
        /\ store.requests[http[h].req].body = PostShape.body
        /\ sendq[1] = <<RequestEnvelope(http[h].req)>>

\* --------------------------------------------------- claims on the client
\* the response envelopes handed to WriteMessage that carry request id rid
ResponsesFor(rid) ==
    SelectSeq(sent, LAMBDA w : /\ w.env.type = "response"
                               /\ w.env.payload.request_id = rid)

\* the response r is what the target answered to task t: its status, its
\* body and the first value of each of its end-to-end headers
RelaysAnswer(r, t) ==
    /\ r.status_code = t.answer.status
    /\ r.body = t.answer.body
    /\ DOMAIN r.headers \subseteq DOMAIN t.answer.header
    /\ \A k \in DOMAIN t.answer.header :
           ~isHopByHop(k) =>
               k \in DOMAIN r.headers /\ r.headers[k] = t.answer.header[k][1]

\* the response r is the synthesized plain-text 502
Synthesized502(r) ==
    /\ r.status_code = 502
    /\ r.headers = TextPlain
    /\ r.body[1] = "Failed to forward: "

OneResponse(id) ==
    LET t == tasks[id]
        w == ResponsesFor(t.req.id)
    IN  /\ t.pc \in {"forward", "write"} => Len(w) = 0
        /\ t.pc = "done" =>
               /\ Len(w) = 1
               /\ w[1].by = id
               /\ IF t.answer.ok THEN RelaysAnswer(w[1].env.payload, t)
                  ELSE Synthesized502(w[1].env.payload)

\* C15: a handleRequest task hands exactly one response envelope to the
\* socket, and not before it has the outcome of the outbound call; the
\* envelope carries the id of the request the task was started for, with
\* the target's status, headers and body when the call succeeded and a
\* plain-text 502 when it failed.
C15_OneResponsePerRequest == \A id \in ReqIds : OneResponse(id)

\* C15 witness: two requests were decoded; the call for the first failed
\* and the target answered the second with 200 and two headers; both
\* tasks have written, the failed one last.
C15_Witness ==
    /\ tasks[1].pc = "done" /\ ~tasks[1].answer.ok
    /\ tasks[2].pc = "done" /\ tasks[2].answer.ok
    /\ tasks[2].answer.status = 200
    /\ DOMAIN tasks[2].answer.header = {Hdr.ContentType, Hdr.KeepAlive}
    /\ Len(sent) = 2
    /\ sent[1].env.payload.request_id = 2
    /\ sent[1].env.payload.headers = [k \in {Hdr.ContentType} |-> "json"]
    /\ sent[2].env.payload.request_id = 1
    /\ sent[2].env.payload.status_code = 502

RECURSIVE Pow2(_)
Pow2(n) == IF n = 0 THEN 1 ELSE 2 * Pow2(n - 1)

\* C16: while Run waits before a retry, the wait is min(2 s * 2^(k-1), 30 s)
\* for the k >= 1 connects that have failed since Run started or since the
\* last successful connect (so 2 s for the first failure after a success),
\* and Run's delay is between 2 s and 30 s at all times.
C16_Backoff ==
    /\ client.pc = "backoff" =>
           /\ client.fails >= 1
           /\ client.delay = Min(reconnectDelay * Pow2(client.fails - 1),
                                 maxReconnectDelay)
    /\ client.pc # "new" =>
           client.delay >= reconnectDelay /\ client.delay <= maxReconnectDelay

\* C16 witness: a connection was made and lost, and since then five
\* connects in a row have failed; Run waits the capped 30 s.
C16_Witness ==
    /\ client.pc = "backoff"
    /\ client.conn >= 1
    /\ client.open = {}
    /\ client.fails = 5
    /\ client.delay = 30

\* Run is waiting after a failure: after a failed connect (in the backoff
\* select) or after an error of runLoop (in time.Sleep)
AfterFailure == client.pc \in {"backoff", "sleep"}

\* C17: Run has returned only if its context is cancelled, and after every
\* failed connect and every error of the read loop Run calls connect again
\* unless the context is cancelled first.
C17_OnlyCancelEndsRun ==
    /\ [](client.pc = "returned" => client.ctx)
    /\ AfterFailure ~> (client.pc = "connect" \/ client.ctx)

\* C17 witness: with the context still active, a connection was made and
\* lost to a read error, the connect after it failed, and Run is in connect
\* once more.
C17_Witness ==
    /\ client.pc = "connect"
    /\ ~client.ctx
    /\ client.fails = 1
    /\ client.conn = 2
    /\ client.open = {}

\* the eight hop-by-hop names
HopByHopNames ==
    {Hdr.Connection, Hdr.KeepAlive, Hdr.ProxyAuthenticate, Hdr.ProxyAuthorization, Hdr.Te,
     Hdr.Trailers, Hdr.TransferEncoding, Hdr.Upgrade}

\* the value of the first of `fields` whose name has the canonical form name
FirstValue(fields, name) ==
    LET i == CHOOSE i \in 1..Len(fields) :
                 /\ CanonicalMIMEHeaderKey(fields[i][1]) = name
                 /\ \A j \in 1..(i - 1) :
                        CanonicalMIMEHeaderKey(fields[j][1]) # name
    IN  fields[i][2]

\* the canonical names among `fields` that are not hop-by-hop
EndToEnd(fields) ==
    {CanonicalMIMEHeaderKey(fields[i][1]) : i \in 1..Len(fields)}
        \ HopByHopNames

\* C18: the header of the outbound request and the headers of the response
\* envelope hold exactly the fields of the webhook, respectively of the
\* target's response, whose canonical name is not one of the eight
\* hop-by-hop names, each with its (first) value; none of the eight names
\* is in either.
C18_HopByHopStripped ==
    probe.fn = "Forward" /\ probe.applied =>
        /\ DOMAIN probe.header = EndToEnd(probe.fields)
        /\ \A k \in DOMAIN probe.header :
               probe.header[k] = <<FirstValue(probe.fields, k)>>
        /\ DOMAIN probe.resp.headers = EndToEnd(probe.fields)
        /\ \A k \in DOMAIN probe.resp.headers :
               probe.resp.headers[k] = FirstValue(probe.fields, k)
        /\ DOMAIN probe.header \cap HopByHopNames = {}
        /\ DOMAIN probe.resp.headers \cap HopByHopNames = {}

\* C18 witness: a message with the fields "TE: a" and "content-type: b" was
\* forwarded; only Content-Type went out and came back.
C18_Witness ==
    /\ probe.fn = "Forward" /\ probe.applied
    /\ probe.fields = <<<<<<"T", "E">>, "a">>,
                      <<<<"c", "o", "n", "t", "e", "n", "t", "-", "t", "y", "p", "e">>, "b">>>>
    /\ probe.header = [k \in {Hdr.ContentType} |-> <<"b">>]
    /\ probe.resp.headers = [k \in {Hdr.ContentType} |-> "b"]

\* p is a prefix of str
IsPrefixOf(p, str) == \E n \in 0..Len(str) : SubSeq(str, 1, n) = p

\* the routes of the list, by position, whose path is a prefix of `path`
Matching(routes, path) ==
    {i \in 1..Len(routes) : IsPrefixOf(routes[i].Path, path)}

\* the first of the matching routes with the longest path
Longest(routes, path) ==
    CHOOSE i \in Matching(routes, path) :
        \A j \in Matching(routes, path) :
            /\ Len(routes[j].Path) <= Len(routes[i].Path)
            /\ j < i => Len(routes[j].Path) < Len(routes[i].Path)

\* C19: route resolution returns the target of the first route among those
\* with the longest path that is a prefix of the request path, and the
\* default target exactly when no route's path is a prefix of it.
C19_LongestPrefix ==
    probe.fn = "resolveTarget" /\ probe.applied =>
        LET m == Matching(probe.routes, probe.path)
        IN  /\ m # {} =>
                  probe.target =
                      probe.routes[Longest(probe.routes, probe.path)].Target
            /\ probe.target = OneTarget.defaultTarget <=> m = {}

\* C19 witness: of the routes /a -> A and /a -> B, both the longest match
\* for /a/b, the first was chosen.
C19_Witness ==
    /\ probe.fn = "resolveTarget" /\ probe.applied
    /\ probe.routes = <<[Path |-> <<"/", "a">>, Target |-> "A"],
                        [Path |-> <<"/", "a">>, Target |-> "B"]>>
    /\ probe.path = <<"/", "a", "/", "b">>
    /\ probe.target = "A"

\* --------------------------------------------------- claims on the log
\* the text `str` has `part` in it
Contains(str, part) ==
    \E i \in 0..(Len(str) - Len(part)) :
        SubSeq(str, i + 1, i + Len(part)) = part

\* the full ids of the tunnels
FullIds == {UuidOf(t) : t \in TunnelIds}

\* C20 as claimed: no log line of the server has a full tunnel id in it.
C20_NoFullIdInLogs ==
    probe.fn = "log" =>
        \A id \in FullIds : ~Contains(Flatten(probe.line), id)

\* the line names its tunnel by the first 8 characters of the id
NamesTunnelShort ==
    \A i \in 1..Len(probe.line) :
        probe.line[i].lit \in {"tunnel ", "tunnel registered: ",
                               "tunnel disconnected: ", "closing tunnel: ",
                               "] forward error (tunnel=",
                               "] replay error (tunnel="} =>
            /\ Len(probe.line[i + 1].val) = 8
            /\ probe.line[i + 1].val = SubSeq(probe.tunnel, 1, 8)

\* the texts of the peers that the line repeats
PeerTexts ==
    {probe.line[i].val : i \in 1..Len(probe.line)}
        \cap {probe.path, probe.method, probe.origin, probe.type,
              probe.read.text}

\* where the full id comes from: every log line that names a tunnel names
\* it by the first 8 characters of its id, and a line has a full tunnel id
\* in it only where it repeats text a peer sent, such as the path and query
\* of a webhook whose forwarding failed, or the type of an envelope.
FullIdOnlyFromPeer ==
    probe.fn = "log" /\ probe.line # <<>> =>
        /\ NamesTunnelShort
        /\ \A id \in FullIds :
               Contains(Flatten(probe.line), id) =>
                   \E text \in PeerTexts : Contains(text, id)

\* the forwarding of a webhook to tunnel 2 failed because the tunnel was
\* closed, and the line names the tunnel by 8 characters.
ForwardErrorLogged ==
    /\ probe.fn = "log"
    /\ probe.tunnel = UuidOf(2)
    /\ probe.err = "tunnel closed"
    /\ Len(probe.line) = 10
    /\ probe.line[3].lit = "] forward error (tunnel="
    /\ probe.line[4].val = SubSeq(UuidOf(2), 1, 8)
    /\ ~Contains(Flatten(probe.line), UuidOf(2))

\* ------------------------------------------------- claims on the registry
\* the tunnels Register has created so far
Created == 1..(nextTunnel - 1)

RegisteredIffOpen ==
    /\ registry \subseteq Created
    /\ \A t \in Created : RegistryGet(registry, t) <=> ~done[t]

\* done fires only in a step that removes the entry, an entry leaves only in
\* a step that fires done, and only a tunnel made in this step enters
FiresWithRemoval ==
    \A t \in TunnelIds :
        /\ (~done[t] /\ done'[t]) <=> (t \in registry /\ t \notin registry')
        /\ (t \notin registry /\ t \in registry') =>
               (t \notin Created /\ t \in Created' /\ ~done'[t])

\* C21: outside the registry's critical sections a tunnel Register created
\* is in the registry exactly when its done signal has not fired; Unregister
\* and CloseAll fire done and remove the entry in one step, nothing else
\* fires done, and a removed entry never comes back.
C21_RegisteredIffOpen == [](RegisteredIffOpen) /\ [][FiresWithRemoval]_vars

\* one tunnel was swept by CloseAll before its pumps started, its reader
\* then failed, and a tunnel registered later is live
C21_Witness ==
    /\ done[1] /\ ~RegistryGet(registry, 1) /\ reader[1].pc = "exited"
    /\ RegistryGet(registry, 2) /\ ~done[2]

\* C22: whatever the interleaving of the reader's exit, CloseAll, repeated
\* Close calls and concurrent ForwardRequest calls, close(t.done) is executed
\* at most once, the done signal has fired exactly when it was executed, and
\* the outbound queue is never closed: nothing closes a closed signal or
\* sends on a closed queue.
C22_DoneClosedOnce ==
    \A t \in TunnelIds :
        /\ chans[t].closes <= 1
        /\ done[t] <=> chans[t].closes = 1
        /\ chans[t].once <=> done[t]
        /\ ~chans[t].sendClosed

\* the tunnel was shut with a request still in its queue, the reader and
\* the writer have both left, and a caller was told the tunnel is closed
C22_Witness ==
    /\ chans[1].closes = 1 /\ done[1]
    /\ ~RegistryGet(registry, 1)
    /\ reader[1].pc = "exited" /\ writer[1].pc = "exited"
    /\ sendq[1] # <<>>
    /\ last.err = "closed"

\* a call standing at its first select with done fired or its context
\* cancelled does not enqueue and, when it returns, returns an error; a
\* queue whose tunnel is done does not grow
RefusesWhenDone ==
    /\ \A h \in Handlers :
           (/\ http[h].pc = "enqueue"
            /\ done[http[h].tunnel] \/ http[h].ctx)
           => /\ http'[h].pc # "wait"
              /\ sendq'[http[h].tunnel] = sendq[http[h].tunnel]
                     \/ http'[h] = http[h]
              /\ http'[h].pc = "defer" => http'[h].err # ""
    /\ \A t \in TunnelIds : done[t] => Len(sendq'[t]) <= Len(sendq[t])

\* C23: when done has fired or the caller's context is cancelled before
\* ForwardRequest reaches its enqueue step, the call returns an error and
\* enqueues nothing, even with room in the queue; so no envelope enters the
\* queue of a tunnel whose done signal has fired.
C23_NoEnqueueAfterDone == [][RefusesWhenDone]_vars

\* --------------------------------------------- claims on ForwardRequest
\* call h stands at one of the two selects of ForwardRequest
AtSelect(h) == http[h].pc \in {"enqueue", "wait"}

\* call h has not returned: it stands at a select, or its deferred function
\* has yet to run
InFlightCall(h) == http[h].pc \in {"enqueue", "wait", "defer"}

Delivered(h) ==
    /\ http[h].req \in DOMAIN pending[http[h].tunnel]
    /\ pending[http[h].tunnel][http[h].req] # <<>>

\* a call that leaves a select on a tunnel whose done has fired, with its
\* context still live, returns the tunnel-closed error or the response
\* that was delivered to it
ClosedIsReported ==
    \A h \in TwoCallers :
        (/\ AtSelect(h) /\ http'[h].pc = "defer"
         /\ done[http[h].tunnel] /\ ~http[h].ctx
         /\ http'[h].err # "encode")
        => \/ http'[h].err = "closed"
           \/ Delivered(h) /\ http'[h].err = ""
                 /\ http'[h].ret = Head(pending[http[h].tunnel][http[h].req])

\* a call that leaves a select with its context expired and nothing
\* delivered returns an error
ExpiryIsReported ==
    \A h \in TwoCallers :
        (AtSelect(h) /\ http'[h].pc = "defer" /\ http[h].ctx /\ ~Delivered(h))
        => http'[h].err # ""

\* what the call returns is what the handler answers with
ReturnIsAnswered ==
    \A h \in TwoCallers :
        (http[h].pc = "defer" /\ http'[h].pc = "idle") =>
            /\ last'.err = http[h].err
            /\ last'.ret = http[h].ret
            /\ last'.req = http[h].req

\* C24: every ForwardRequest call returns.  Once done has fired (Unregister
\* or CloseAll) every call in flight, blocked on the full queue or waiting
\* for its response, returns without its context having to expire, and with
\* the tunnel-closed error unless its response had been delivered; a call
\* whose context has expired returns, with an error when no response came,
\* even on a live tunnel; and since every context expires, every call
\* returns.
C24_ForwardReturns ==
    /\ [][ClosedIsReported /\ ExpiryIsReported /\ ReturnIsAnswered]_vars
    /\ \A h \in TwoCallers :
           /\ (InFlightCall(h) /\ done[http[h].tunnel]) ~> (http[h].pc = "idle")
           /\ (InFlightCall(h) /\ http[h].ctx) ~> (http[h].pc = "idle")
           /\ WF_vars(CtxDone(h)) => (InFlightCall(h) ~> (http[h].pc = "idle"))

\* one call is blocked on the full queue and another waits for its
\* response, both with a live context, on a tunnel whose done has fired
C24_Witness ==
    /\ done[1]
    /\ \E h, g \in TwoCallers :
           /\ http[h].pc = "enqueue" /\ ~http[h].ctx
           /\ Len(sendq[1]) = chans[1].cap
           /\ http[g].pc = "wait" /\ ~http[g].ctx /\ ~Delivered(g)

\* an envelope enters the queue only for an id that has its slot already
SlotBeforeEnvelope ==
    \A t \in TunnelIds :
        Len(sendq'[t]) > Len(sendq[t]) =>
            LET id == sendq'[t][Len(sendq'[t])].id
            IN  id \in DOMAIN pending[t] /\ id \in DOMAIN pending'[t]

\* the reader handles, in this step, a response for the request of call h
Receives(h) ==
    LET t == http[h].tunnel
    IN  /\ reader[t].pc = "run" /\ reader'[t].pc = "store"
        /\ reader'[t].resp.request_id = http[h].req

\* a response received while the call waits with an empty slot is put in
\* the slot
ReceivedIsDelivered ==
    \A h \in TwoCallers :
        (http[h].pc = "wait" /\ ~Delivered(h) /\ Receives(h))
        => pending'[http[h].tunnel][http[h].req] = <<reader'[http[h].tunnel].resp>>

\* a waiting call that returns with a delivered response, a live context and
\* a live tunnel returns that response
DeliveredIsReturned ==
    \A h \in TwoCallers :
        (/\ http[h].pc = "wait" /\ Delivered(h) /\ http'[h].pc = "defer"
         /\ ~http[h].ctx /\ ~done[http[h].tunnel])
        => /\ http'[h].err = "" /\ http'[h].req = http[h].req
           /\ http'[h].ret = Head(pending[http[h].tunnel][http[h].req])
           /\ http'[h].ret.request_id = http[h].req

\* C25: the pending slot of a request exists before its envelope enters the
\* queue (so before the writer can take it and before any answer can come
\* back); a response with the request's id that the reader receives while
\* the call waits is put in the slot, and the call then returns, with that
\* response when neither its context is done nor done has fired.
C25_NoEarlyLoss ==
    /\ [][SlotBeforeEnvelope /\ ReceivedIsDelivered /\ DeliveredIsReturned]_vars
    /\ \A h \in TwoCallers :
           (http[h].pc = "wait" /\ Delivered(h)) ~> (http[h].pc = "idle")

\* a call returned the response the reader received for it, on a live
\* tunnel, while the other call waits with its response delivered
C25_Witness ==
    /\ last.err = "" /\ last.req # NoId /\ last.ret.request_id = last.req
    /\ ~done[1]
    /\ \E h \in TwoCallers : http[h].pc = "wait" /\ Delivered(h) /\ ~http[h].ctx

\* ------------------------------------------------- claims on the socket
\* the writer of the tunnel of connection c is in WriteMessage with env
WriterOn(c, env) ==
    \E t \in TunnelIds :
        tconn[t] = c /\ writer[t].pc = "write" /\ writer[t].msg = <<env>>

WriterStarted(c) == \E t \in TunnelIds : tconn[t] = c /\ writer[t].pc # "off"

\* a step that writes to connection c is a step of the handshake while no
\* writer was started for c, or the write of the envelope c's writer took
OneWriterAtATime ==
    \A c \in Conns :
        conn'[c].out # conn[c].out =>
            /\ Len(conn'[c].out) = Len(conn[c].out) + 1
            /\ \/ /\ conn[c].pc \in {"upgraded", "registered"}
                  /\ ~WriterStarted(c)
                  /\ conn'[c].out[Len(conn'[c].out)].type \in {"registered", "error"}
               \/ /\ conn[c].pc = "serving"
                  /\ WriterOn(c, conn'[c].out[Len(conn'[c].out)])
                  /\ conn'[c].out[Len(conn'[c].out)].type = "request"

\* what the client has received: one handshake envelope first, requests
\* after a `registered` only
RegisteredFirst ==
    \A c \in Conns :
        /\ \A i \in DOMAIN conn[c].out :
               (i = 1) <=> (conn[c].out[i].type \in {"registered", "error"})
        /\ \A i \in DOMAIN conn[c].out :
               conn[c].out[i].type = "request" => conn[c].out[1].type = "registered"
        /\ WriterStarted(c) => conn[c].out # <<>> \/ ~conn[c].open

\* C26: on the server side one task at a time writes to a tunnel's socket:
\* the handshake writes its single registered (or error) envelope before the
\* writer is started, every later envelope is written by the writer, and so
\* registered is the first envelope the client receives and comes before
\* every request, also when a webhook was queued between Register and the
\* start of the writer.
C26_RegisteredFirst == [](RegisteredFirst) /\ [][OneWriterAtATime]_vars

\* the client of tunnel 1 received registered and then a request, and a
\* webhook is queued on a second tunnel that Register has made and whose
\* registered envelope is not written yet
C26_Witness ==
    \E c, b \in Conns :
        /\ conn[c].out = <<RegisteredEnvelope(1), RequestEnvelope(1)>>
        /\ conn[b].pc = "registered" /\ conn[b].out = <<>>
        /\ sendq[conn[b].tunnel] # <<>>

\* ----------------------------------------------- claims on the deadlines
\* C27: the read of the register envelope is bounded by the handshake
\* deadline: a connection that was upgraded and sends nothing does not stay
\* in that read for ever, the server closes it.
C27_HandshakeDeadline ==
    \A c \in Conns : (conn[c].pc = "upgraded") ~> (conn[c].pc # "upgraded")

\* C28: the reader's read deadline is set to now + pongWait after each
\* envelope it reads, as after each pong, so envelopes arriving at intervals
\* shorter than pongWait keep the tunnel alive without any pong.
C28_ReadRefreshesDeadline ==
    [][\A t \in TunnelIds :
           (reader[t].pc = "run" /\ reader'[t].pc = "store")
           => clock'.readDeadline[t] = clock.now + pongWait]_vars

\* ------------------------------------------------- claims on the pumps
\* a reader that has returned has unregistered its tunnel, fired done and
\* closed the socket
ReaderExitCleans ==
    \A t \in TunnelIds :
        reader[t].pc = "exited" =>
            /\ ~RegistryGet(registry, t)
            /\ done[t]
            /\ ~conn[tconn[t]].open

\* C29: when the reader's read fails, for whatever reason, the tunnel has
\* left the registry, done has fired and the socket is closed by the time
\* the reader returns; a lookup of the id finds nothing from then on, and
\* the writer exits in the end.
C29_ReaderExit ==
    /\ [](ReaderExitCleans)
    /\ \A t \in TunnelIds :
           (reader[t].pc = "exited") ~> (writer[t].pc = "exited")

\* the reader has just failed on a live tunnel: the writer is still
\* running, with an envelope in the queue and a call waiting
C29_Witness ==
    /\ reader[1].pc = "exited" /\ writer[1].pc = "run"
    /\ sendq[1] # <<>>
    /\ \E h \in TwoCallers : http[h].pc = "wait"

\* the writer leaves its loop only in a step after which the socket is
\* closed, and while done has not fired only through a write: of the
\* envelope it took, or of a ping on a socket that was open
WriterExitCloses ==
    \A t \in TunnelIds :
        (writer[t].pc \in {"run", "write"} /\ writer'[t].pc = "exited") =>
            /\ ~conn'[tconn[t]].open
            /\ \/ done[t]
               \/ writer[t].pc = "write"
               \/ conn[tconn[t]].open

\* C30: the writer exits on done or on its first failed write and closes the
\* socket on every exit path; after that the tunnel does not stay registered
\* for ever: the reader's read fails on the closed socket, the tunnel is
\* unregistered, and the calls waiting on it are released.
C30_WriterExit ==
    /\ [][WriterExitCloses]_vars
    /\ [](\A t \in TunnelIds : writer[t].pc = "exited" => ~conn[tconn[t]].open)
    /\ \A t \in TunnelIds :
           (writer[t].pc = "exited") ~> (~RegistryGet(registry, t) /\ done[t])
    /\ \A h \in TwoCallers :
           (writer[1].pc = "exited" /\ InFlightCall(h)) ~> (http[h].pc = "idle")

\* a write has failed on a live tunnel: the writer is gone, the tunnel is
\* still registered, its reader still reads and a call is waiting with a
\* live context
C30_Witness ==
    /\ writer[1].pc = "exited" /\ reader[1].pc = "run"
    /\ RegistryGet(registry, 1) /\ ~done[1]
    /\ \E h \in TwoCallers : http[h].pc = "wait" /\ ~http[h].ctx

\* ---------------------------------------------------- claims, fourth part
\* one step of tunnel 1's queue and socket: the queue changes only by an
\* envelope joining at its tail or by its head passing to the writer; the
\* socket receives only the envelope the writer holds; a writer that lets
\* go of an envelope unwritten has ended, and an ended writer writes
\* nothing more
FifoStep ==
    LET q == sendq[1]
        out == conn[1].out
    IN  /\ sendq'[1] # q =>
               \/ /\ q # <<>> /\ sendq'[1] = Tail(q)
                  /\ writer[1].pc = "run"
                  /\ writer'[1] = [pc |-> "write", msg |-> <<Head(q)>>]
               \/ /\ Len(sendq'[1]) = Len(q) + 1
                  /\ SubSeq(sendq'[1], 1, Len(q)) = q
                  /\ writer'[1] = writer[1]
        /\ conn'[1].out # out =>
               /\ writer[1].pc = "write"
               /\ conn'[1].out = out \o writer[1].msg
               /\ sendq'[1] = q
               /\ writer'[1].pc = "run"
        /\ (writer[1].pc = "write" /\ writer'[1].pc # "write"
                /\ conn'[1].out = out) =>
               writer'[1].pc = "exited"
        /\ writer'[1].msg # writer[1].msg =>
               writer[1].msg = <<>> \/ writer'[1].msg = <<>>

\* what was written, what the writer holds and what waits, in this order,
\* hold no envelope twice
NoEnvelopeTwice ==
    LET all == conn[1].out \o writer[1].msg \o sendq[1]
    IN  \A i, j \in 1..Len(all) : all[i] = all[j] => i = j

\* C31: the sequence of envelopes WritePump writes to a tunnel's socket is
\* a prefix of the order in which t.send accepted them: the writer takes
\* only the head of the queue and writes what it took before it takes the
\* next, an accepted envelope joins at the tail, no envelope is written
\* twice, and one that left unwritten (a failed write) is the last the
\* writer took.
C31_WriterFifo == [](NoEnvelopeTwice) /\ [][FifoStep]_vars

\* two envelopes waited in the queue together, the one accepted first
\* (request 2) was written, and the other is still the head
C31_Witness ==
    /\ conn[1].out = <<RegisteredEnvelope(1), RequestEnvelope(2)>>
    /\ sendq[1] = <<RequestEnvelope(1)>>
    /\ \A h \in TwoCallers : http[h].pc = "wait"
    /\ writer[1].pc = "run"

\* the steps in which the reader drops an envelope and goes back to
\* reading change nothing but the reader's position
DropHasNoEffect ==
    \A t \in TunnelIds :
        (\/ reader[t].pc = "run" /\ reader'[t].pc = "continue"
         \/ reader[t].pc = "continue" /\ reader'[t].pc # "continue")
        => /\ reader'[t].pc \in {"run", "continue"}
           /\ registry' = registry
           /\ done' = done
           /\ chans' = chans
           /\ pending' = pending
           /\ sendq' = sendq
           /\ store' = store
           /\ conn' = conn

\* C32: a mid-session envelope that is malformed, is a response whose
\* payload does not decode, or carries a tag other than response is dropped
\* with no effect: the tunnel stays registered, done does not fire, the
\* pending table and the request store are unchanged, and the reader goes
\* back to reading.
C32_DropNoEffect == [][DropHasNoEffect]_vars

\* an envelope is being dropped while a call waits for its response on the
\* registered tunnel and its request is stored
C32_Witness ==
    /\ reader[1].pc = "continue"
    /\ RegistryGet(registry, 1) /\ ~done[1]
    /\ \E h \in TwoCallers :
           http[h].pc = "wait" /\ http[h].req \in DOMAIN pending[1]
    /\ store.requests # EmptyMap

\* C33: graceful shutdown stops admitting tunnels before it sweeps the
\* registry: once Server.Run has called CloseAll, every tunnel that was
\* registered is done with its socket closed, and the registry is empty and
\* stays empty; no handshake racing with shutdown registers after the sweep.
C33_SweepIsFinal ==
    srv \in {"swept", "stopped"} =>
        /\ registry = {}
        /\ \A t \in Created : done[t] /\ ~conn[tconn[t]].open

\* a task holds at most one of the three locks
HoldsAtMostOne ==
    \A k \in LockTasks : Cardinality({h.mu : h \in probe.held[k]}) <= 1

\* a task that holds a lock is not about to wait: not for a lock, and not
\* in a channel operation of ForwardRequest
HolderDoesNotWait ==
    \A k \in LockTasks :
        probe.held[k] # {} =>
            NextOp(k).op \notin {"Lock", "RLock", "send", "recv", "return"}

\* some task that has not returned can take its next step
SomeTaskRuns ==
    (\E k \in LockTasks : NextOp(k).op # "return")
    => \E k \in LockTasks :
           /\ NextOp(k).op # "return"
           /\ NextOp(k).op \in {"Lock", "RLock"} => LockFree(NextOp(k))

\* C34: no task holds two of the registry lock, the store lock and a
\* tunnel's pending-table lock at once, and no task waits in a channel
\* operation of ForwardRequest (or for another lock, or returns) while
\* holding one; so a lock that is held is released by its holder's next
\* steps and the tasks cannot deadlock on the locks.
C34_LockDiscipline ==
    probe.fn = "locks" =>
        HoldsAtMostOne /\ HolderDoesNotWait /\ SomeTaskRuns

\* a webhook waits in ForwardRequest's second select holding nothing
\* while the reader holds the pending-table lock in HandleResponse and the
\* shutdown sweep holds the registry lock
C34_Witness ==
    /\ probe.fn = "locks"
    /\ NextOp(1).op = "recv" /\ probe.held[1] = {}
    /\ probe.held[2] = {[mu |-> "pending", w |-> TRUE]}
    /\ probe.held[3] = {[mu |-> "registry", w |-> TRUE]}

\* C35: once the client's context is cancelled Run eventually returns,
\* wherever it stands: dialling, waiting out a backoff delay, in the read
\* loop with no envelope arriving, or sleeping before a reconnect; no
\* further envelope from the server is needed.
C35_CancelReturns ==
    (client.ctx /\ (client.pc = "connect" => client.fails < MaxAttempts))
        ~> client.pc = "returned"

\* the calls of WriteMessage in progress on the client's connection
Writing ==
    Cardinality({id \in 1..MaxReqIds : tasks[id].pc = "writing"})
        + (IF client.pc = "pong" THEN 1 ELSE 0)

\* C36: on the client at most one task writes to the tunnel socket at any
\* time: the response writes of the per-request tasks and the pong reply of
\* the read loop are never in progress together on one connection.
C36_OneWriter == Writing <= 1

\* C37: a task started for a request received on connection K hands its
\* response envelope only to K; a task left over from an earlier connection
\* never writes to the connection made by a reconnect.
C37_WritesToOwnConnection ==
    \A i \in 1..Len(sent) :
        sent[i].by # NoId => sent[i].conn = tasks[sent[i].by].on

\* the response the store keeps for a request id (NoResp when none)
StoredResponse(s, id) ==
    IF id \in DOMAIN s.responses THEN s.responses[id] ELSE NoResp

\* the step in which tunnel t's reader stores a response leaves alone the
\* stored response of every request that belongs to another tunnel
StoresOwnOnly ==
    \A t \in TunnelIds :
        (reader[t].pc = "store" /\ reader'[t].pc = "run") =>
            \A id \in DOMAIN store.requests :
                store.requests[id].tunnel_id # t =>
                    StoredResponse(store', id) = StoredResponse(store, id)

\* C38: a response envelope received on tunnel A changes the stored
\* response only of a request stored under tunnel A; a client connected as
\* A cannot set or overwrite the stored response, and so the listed status,
\* of a request of another tunnel B by using its request id.
C38_StoresOwnOnly == [][StoresOwnOnly]_vars

\* C39: for a request whose ForwardRequest returned a response, once the
\* reader has finished storing, the response the store keeps for the id is
\* the one returned to the caller; a duplicate or later envelope with the
\* same request_id replaces neither it nor the status the listing shows.
C39_StoredIsReturned ==
    (/\ Returned
     /\ last.req \in DOMAIN store.requests
     /\ reader[last.tunnel].pc # "store")
    => StoredResponse(store, last.req) = last.ret

\* a step that changes the registry or fires a done signal (Register,
\* Unregister, CloseAll) leaves the store as it is
RegistryStepKeepsStore ==
    (registry' # registry \/ done' # done \/ nextTunnel' # nextTunnel)
        => store' = store

\* a stored request leaves the store only as the oldest of its tunnel in a
\* Store that exceeds the limit, or in a Clear of its tunnel; a stored
\* response leaves only with its request
RemovedOnlyByStoreOrClear ==
    /\ \A id \in DOMAIN store.requests :
           id \notin DOMAIN store'.requests =>
               LET t == store.requests[id].tunnel_id
               IN  \/ /\ nextReq' = nextReq + 1
                      /\ Len(store.byTunnel[t]) = store.maxRequests
                      /\ id = Head(store.byTunnel[t])
                      /\ store' = Store(store, t, store'.requests[nextReq])
                   \/ store' = Clear(store, t)
    /\ \A id \in DOMAIN store.responses :
           (id \in DOMAIN store.requests /\ id \notin DOMAIN store'.responses)
               => id \notin DOMAIN store'.requests

\* the requests of a tunnel are those of its last Store calls since the
\* last Clear, listed newest first, whether or not the tunnel is registered
RecordsStayListable ==
    \A t \in TunnelIds :
        LET n == Len(storedLog[t])
            k == Min(n, store.maxRequests)
            listing == List(store, t)
        IN  /\ store.byTunnel[t] = SubSeq(storedLog[t], n - k + 1, n)
            /\ Len(listing) = k
            /\ \A i \in 1..k : listing[i].id = storedLog[t][n + 1 - i]

\* C40: Register, Unregister and CloseAll leave the request store
\* unchanged: the requests and responses recorded for a tunnel stay stored
\* and listable after the tunnel is unregistered or swept; only eviction by
\* Store or an explicit Clear removes them.
C40_RegistryKeepsStore ==
    /\ [](RecordsStayListable)
    /\ [][RegistryStepKeepsStore /\ RemovedOnlyByStoreOrClear]_vars

\* after the sweep the listing of a swept tunnel still shows its request
\* with the status of the response that was stored
C40_Witness ==
    /\ registry = {} /\ done[1]
    /\ last.kind = "list" /\ last.tunnel = 1
    /\ Len(last.listing) = 1
    /\ last.listing[1].status_code = 200
    /\ last.listing = List(store, 1)

====
